---- MODULE Spec2Model ----
(***************************************************************************)
(* Model of python_to_moodle: the symbol table built by FunctionAnalyzer,  *)
(* the dependency resolver get_function_dependencies_ordered, the merging  *)
(* of function and class dependencies in process_function / process_class, *)
(* and the naming transform of UnittestAnalyzer.                            *)
(*                                                                         *)
(* A module is abstracted to what the dependency code reads: for every     *)
(* function and class definition, the set of names it calls                *)
(* (FunctionInfo.dependencies), and for the matched test class the set of  *)
(* names its setUp calls.  Names called that are not defined in the module *)
(* (print, len, ...) are dropped by every "& all_functions" /              *)
(* "& all_classes" filter of the code and are left out.                    *)
(***************************************************************************)
EXTENDS Integers, Sequences, FiniteSets, TLC

\* ------------------------------------------------------------------ bounds
NumFuncs == 3      \* function definitions in the analysed module
NumClasses == 2    \* class definitions in the analysed module
MaxCalls == 3      \* call expressions in the module and the setUp together
MaxNameLen == 3    \* characters of a symbol name (the listed examples are longer)
MaxTestClasses == 2  \* class definitions in the test file of a run of main
MaxBodyLen == 3    \* statements in the body of the test class of a test case run
MaxArgs == 2       \* arguments of an assertion of a single statement run
MaxNodes == 4      \* definitions in the syntax tree of an analysed module
MaxStatements == 2 \* statements in the test method of a run on statements

VARIABLES
    module_info,   \* ModuleInfo: .functions / .classes, name -> dependencies
    setup_code,    \* TestClass.setup_code of the matched test class: names it calls
    hash_order,    \* the process's string hash order: fixes set iteration order
    redefined,     \* the classes named like a function: <<class, function>>
    tree,          \* FunctionAnalyzer.tree: the definitions of the parsed module
    tables,        \* what FunctionAnalyzer.analyze returned for it
    pc,            \* position of the run
    question,      \* the last question built: name, kind, class_deps, dependencies
    target,        \* get_function_dependencies_ordered: function_name of the call
    ordered,       \* ... its local list
    visited,       \* ... its local set
    stack,         \* ... the active loops: the outer one, then one per visit
    expanded,      \* how often each name's dependencies were walked in this call
    result,        \* the list the last call returned
    previous,      \* the list the call before returned, for the same target
    steps,         \* loop iterations and returns executed by the running call
    all_deps_ordered, \* process_class: its local list
    visited_funcs,    \* ... its local set
    class_deps_set,   \* ... its local set of classes
    function_file,    \* main: the module file it is given
    unittest_file,    \* ... and the test file
    test_classes,     \* ... what analyze_unittest_file returned
    function_names,   \* ... the keys of module_info.functions
    class_names,      \* ... the keys of module_info.classes
    coverage,         \* what validate_test_coverage did
    error_msg,        \* ... the message of its ValueError
    position,         \* main: the symbol its loops are at
    questions,        \* ... its list of questions
    output,           \* the output document
    exit_status       \* what main returned

vars == <<module_info, setup_code, hash_order, redefined, tree, tables, pc, question,
          target, ordered, visited, stack, expanded, result, previous, steps,
          all_deps_ordered, visited_funcs, class_deps_set,
          function_file, unittest_file, test_classes, function_names, class_names,
          coverage, error_msg, position, questions, output, exit_status>>
naming_vars == <<function_file, unittest_file, test_classes, function_names,
                 class_names, coverage, error_msg, position, questions, output,
                 exit_status>>
inputs == <<module_info, setup_code, hash_order, redefined, tree, tables>>
class_locals == <<all_deps_ordered, visited_funcs, class_deps_set>>
resolver_vars == <<target, ordered, visited, stack, expanded, result, previous, steps,
                   class_locals>>

\* ------------------------------------------------------------ symbol names
FunctionNames == {<<"def", i>> : i \in 1..NumFuncs}
ClassNames == {<<"class", i>> : i \in 1..NumClasses}
Names == FunctionNames \cup ClassNames
SetUp == <<"setUp", 0>>

RECURSIVE Orderings(_)
Orderings(S) ==
    IF S = {} THEN {<<>>}
    ELSE UNION {{<<x>> \o p : p \in Orderings(S \ {x})} : x \in S}

\* The iteration order of a Python set of str is fixed by the hash seed of
\* the process.  Only the relative order of names of one kind is observable:
\* every loop of the code over a set of mixed kinds either skips one kind or
\* only adds to a set.
HashOrders == {f \o c : f \in Orderings(FunctionNames), c \in Orderings(ClassNames)}

\* The functions and the classes in definition order.
SetOrderOfFunctions == [i \in 1..NumFuncs |-> <<"def", i>>]

SetOrderOfClasses == [i \in 1..NumClasses |-> <<"class", i>>]

\* Iterating over the set S: its elements in the process's hash order.
SetOrder(S) == SelectSeq(hash_order, LAMBDA x : x \in S)

Range(seq) == {seq[i] : i \in 1..Len(seq)}

\* The name of a definition as a string: a class that carries the name of a
\* function has the string of that function.
identifier(name) ==
    IF \E r \in redefined : r[1] = name
    THEN (CHOOSE r \in redefined : r[1] = name)[2]
    ELSE name

\* ------------------------------------------------------------ the sources
\* A source is the set of its call expressions <<caller, callee>>; the caller
\* is a definition of the module or the setUp of the test class.
CallSites == (Names \cup {SetUp}) \X Names

RECURSIVE SubsetsUpTo(_, _)
SubsetsUpTo(S, k) ==
    IF k = 0 THEN {{}}
    ELSE LET smaller == SubsetsUpTo(S, k - 1)
         IN  smaller \cup {A \cup {e} : A \in smaller, e \in S}

Sources == SubsetsUpTo(CallSites, MaxCalls)

\* FunctionAnalyzer._find_dependencies: the names called inside a definition.
_find_dependencies(source, node) == {e[2] : e \in {c \in source : c[1] = node}}

\* FunctionAnalyzer.analyze: the two tables, name -> dependencies.
analyze(source) ==
    [functions |-> [f \in FunctionNames |-> _find_dependencies(source, f)],
     classes   |-> [c \in ClassNames |-> _find_dependencies(source, c)]]

all_functions == DOMAIN module_info.functions
all_classes == DOMAIN module_info.classes

\* ------------------------------------------- the resolver, as a function
\* get_function_dependencies_ordered.visit and its loop over the
\* dependencies of fname.  st is the pair of locals [ordered, visited].
RECURSIVE visit(_, _, _, _), visit_each(_, _, _, _)
visit(fname, function_name, available_functions, st) ==
    IF fname \in st.visited \/ fname = function_name THEN st
    ELSE LET entered == [st EXCEPT !.visited = @ \cup {fname}]
         IN  IF fname \in DOMAIN module_info.functions
             THEN LET after == visit_each(SetOrder(module_info.functions[fname]),
                                          function_name, available_functions, entered)
                  IN  [after EXCEPT !.ordered = Append(@, fname)]
             ELSE entered

visit_each(deps, function_name, available_functions, st) ==
    IF deps = <<>> THEN st
    ELSE LET dep == Head(deps)
             next == IF dep \in available_functions
                     THEN visit(dep, function_name, available_functions, st)
                     ELSE st
         IN  visit_each(Tail(deps), function_name, available_functions, next)

get_function_dependencies_ordered(function_name, available_functions) ==
    IF function_name \notin DOMAIN module_info.functions THEN <<>>
    ELSE LET dependencies == module_info.functions[function_name] \cap available_functions
         IN  visit_each(SetOrder(dependencies), function_name, available_functions,
                        [ordered |-> <<>>, visited |-> {}]).ordered

\* extract_dependencies_from_code: the names called by name in the code that
\* are functions, and those that are classes.
extract_dependencies_from_code(code, functions, classes) ==
    [func_deps  |-> code \cap functions,
     class_deps |-> {n \in code : identifier(n) \notin functions /\ n \in classes}]

\* The classes a function calls.
func_class_deps(fname) == module_info.functions[fname] \cap all_classes

RECURSIVE append_missing(_, _)
\* "for sub_dep in sub_deps: if sub_dep not in dependencies: append"
append_missing(dependencies, sub_deps) ==
    IF sub_deps = <<>> THEN dependencies
    ELSE append_missing(
             IF Head(sub_deps) \in Range(dependencies) THEN dependencies
             ELSE Append(dependencies, Head(sub_deps)),
             Tail(sub_deps))

\* ------------------------------------------------------ process_function
\* m is the pair of locals [dependencies, class_deps_set].

RECURSIVE merge_setup_funcs(_, _)
\* The loop "for setup_func in setup_func_deps" of process_function.
merge_setup_funcs(setup_func_deps, m) ==
    IF setup_func_deps = <<>> THEN m
    ELSE LET setup_func == Head(setup_func_deps)
             sub_deps == get_function_dependencies_ordered(setup_func, all_functions)
             extended == m.dependencies \o sub_deps
             merged ==
                 IF setup_func \notin Range(m.dependencies)
                    /\ setup_func \in DOMAIN module_info.functions
                 THEN [dependencies |->
                           IF setup_func \notin Range(extended)
                           THEN Append(extended, setup_func) ELSE extended,
                       class_deps_set |->
                           m.class_deps_set \cup
                           UNION {func_class_deps(sub_func) :
                                  sub_func \in ({setup_func} \cup Range(sub_deps))
                                               \cap DOMAIN module_info.functions}]
                 ELSE m
         IN  merge_setup_funcs(Tail(setup_func_deps), merged)

RECURSIVE merge_class_func_deps(_, _)
\* The loop "for func_dep in class_func_deps" of process_function.
merge_class_func_deps(class_func_deps, m) ==
    IF class_func_deps = <<>> THEN m
    ELSE LET func_dep == Head(class_func_deps)
             sub_deps == get_function_dependencies_ordered(func_dep, all_functions)
             merged ==
                 IF func_dep \notin Range(m.dependencies)
                 THEN [dependencies |->
                           Append(append_missing(m.dependencies, sub_deps), func_dep),
                       class_deps_set |->
                           IF func_dep \in DOMAIN module_info.functions
                           THEN m.class_deps_set \cup func_class_deps(func_dep)
                           ELSE m.class_deps_set]
                 ELSE m
         IN  merge_class_func_deps(Tail(class_func_deps), merged)

RECURSIVE merge_class_deps(_, _)
\* The loop "for class_dep in list(class_deps_set)" of process_function: the
\* list is a copy made before the loop.
merge_class_deps(class_deps, m) ==
    IF class_deps = <<>> THEN m
    ELSE LET class_dep == Head(class_deps)
             merged ==
                 IF class_dep \in DOMAIN module_info.classes
                 THEN merge_class_func_deps(
                          SetOrder(module_info.classes[class_dep] \cap all_functions), m)
                 ELSE m
         IN  merge_class_deps(Tail(class_deps), merged)

\* The dictionary dependency_code of process_function and process_class:
\* the key is the string of a name, the value the source code of a
\* definition, written as the definition.  The classes are entered first,
\* then the functions.
dependency_code(class_deps, dependencies) ==
    [key \in {identifier(dep_name) : dep_name \in Range(class_deps) \cup Range(dependencies)} |->
        IF key \in Range(dependencies) THEN key
        ELSE CHOOSE class_dep \in Range(class_deps) : identifier(class_dep) = key]

\* build_template: the source codes placed in the template, in order
\* (include_dependencies is on by default).
build_template(dependencies, code) ==
    LET present == SelectSeq(dependencies,
                             LAMBDA dep_name : identifier(dep_name) \in DOMAIN code)
    IN  [i \in 1..Len(present) |-> code[identifier(present[i])]]

process_function(function_name) ==
    LET dependencies == get_function_dependencies_ordered(function_name, all_functions)
        direct == [dependencies |-> dependencies,
                   class_deps_set |->
                       func_class_deps(function_name) \cup
                       UNION {func_class_deps(dep_func_name) :
                              dep_func_name \in Range(dependencies)
                                                \cap DOMAIN module_info.functions}]
        setup == extract_dependencies_from_code(setup_code, all_functions, all_classes)
        with_setup ==
            IF setup_code # {}
            THEN merge_setup_funcs(
                     SetOrder(setup.func_deps),
                     [direct EXCEPT !.class_deps_set = @ \cup setup.class_deps])
            ELSE direct
        merged == merge_class_deps(SetOrder(with_setup.class_deps_set), with_setup)
        class_deps == SetOrder(merged.class_deps_set)
    IN  [name |-> function_name,
         kind |-> "function",
         class_deps |-> class_deps,
         dependencies |-> merged.dependencies,
         template |-> build_template(class_deps \o merged.dependencies,
                                     dependency_code(class_deps, merged.dependencies))]

\* --------------------------------------------------------- process_class
\* r is the triple of locals [all_deps_ordered, visited_funcs, class_deps_set].
RECURSIVE resolve_function_deps(_, _), resolve_each(_, _)
resolve_function_deps(func_name, r) ==
    IF func_name \in r.visited_funcs \/ func_name \notin all_functions THEN r
    ELSE LET entered == [r EXCEPT !.visited_funcs = @ \cup {func_name}]
             after == resolve_each(
                          SetOrder(module_info.functions[func_name] \cap all_functions),
                          entered)
         IN  [after EXCEPT
                 !.class_deps_set = @ \cup func_class_deps(func_name),
                 !.all_deps_ordered = Append(@, func_name)]

resolve_each(deps, r) ==
    IF deps = <<>> THEN r
    ELSE resolve_each(Tail(deps), resolve_function_deps(Head(deps), r))

process_class(class_name) ==
    LET direct_deps == module_info.classes[class_name] \cap all_functions
        resolved == resolve_each(SetOrder(direct_deps),
                                 [all_deps_ordered |-> <<>>,
                                  visited_funcs |-> {},
                                  class_deps_set |-> {}])
        with_direct ==
            resolved.class_deps_set \cup
            {dep \in module_info.classes[class_name] :
                dep \in all_classes /\ dep # class_name}
        class_deps == SetOrder(with_direct \ {class_name})
    IN  [name |-> class_name,
         kind |-> "class",
         class_deps |-> class_deps,
         dependencies |-> resolved.all_deps_ordered,
         template |-> build_template(class_deps \o resolved.all_deps_ordered,
                                     dependency_code(class_deps,
                                                     resolved.all_deps_ordered))]

\* ------------------------------------------------------------------ main
NoQuestion == [name |-> SetUp, kind |-> "none", class_deps |-> <<>>,
               dependencies |-> <<>>, template |-> <<>>]

NoResult == <<SetUp>>

\* The tables of functions and classes before any definition is entered.
NoTables == [functions |-> <<>>, classes |-> <<>>]

ResolverIdle ==
    /\ target = SetUp
    /\ ordered = <<>>
    /\ visited = {}
    /\ stack = <<>>
    /\ expanded = [n \in Names |-> 0]
    /\ result = NoResult
    /\ previous = NoResult
    /\ steps = 0
    /\ all_deps_ordered = <<>>
    /\ visited_funcs = {}
    /\ class_deps_set = {}

NamingIdle ==
    /\ function_file = [parses |-> FALSE, functions |-> <<>>, classes |-> <<>>]
    /\ unittest_file = [parses |-> FALSE, body |-> <<>>]
    /\ test_classes = <<>>
    /\ function_names = <<>>
    /\ class_names = <<>>
    /\ coverage = "none"
    /\ error_msg = <<>>
    /\ position = 0
    /\ questions = <<>>
    /\ output = [written |-> FALSE, questions |-> <<>>]
    /\ exit_status = -1

Init ==
    /\ \E source \in Sources :
        /\ module_info = analyze(source)
        /\ setup_code = _find_dependencies(source, SetUp)
    /\ hash_order \in HashOrders
    /\ redefined = {}
    /\ tree = <<>>
    /\ tables = NoTables
    /\ pc = "analyzed"
    /\ question = NoQuestion
    /\ ResolverIdle
    /\ NamingIdle

\* main: one question per function of the module ...
ProcessFunction(function_name) ==
    /\ question' = process_function(function_name)
    /\ pc' = "question"
    /\ UNCHANGED <<inputs, resolver_vars, naming_vars>>

\* ... and one per class.
ProcessClass(class_name) ==
    /\ question' = process_class(class_name)
    /\ pc' = "question"
    /\ UNCHANGED <<inputs, resolver_vars, naming_vars>>

Next ==
    \/ \E function_name \in all_functions : ProcessFunction(function_name)
    \/ \E class_name \in all_classes : ProcessClass(class_name)

Spec == Init /\ [][Next]_vars

\* ------------------------------------ the resolver, one step at a time
\* One call of get_function_dependencies_ordered(function_name,
\* all_functions) on an analyzer, executed statement by statement, and a
\* second call for the same target on the same analyzer.  A frame of the
\* stack is a running "for dep in ..." loop: fname is the function whose
\* dependencies it walks (the target for the outer loop), deps what is left.

\* The resolver reads the dependencies of functions only, and every name
\* that is not a function is the same to it: one class stands for them.
ResolverSources ==
    SubsetsUpTo(FunctionNames \X (FunctionNames \cup {<<"class", 1>>}), MaxCalls)
ResolverHashOrders ==
    {f \o SetOrderOfClasses : f \in Orderings(FunctionNames)}

InitResolve ==
    /\ \E source \in ResolverSources : module_info = analyze(source)
    /\ setup_code = {}
    /\ hash_order \in ResolverHashOrders
    /\ redefined = {}
    /\ tree = <<>>
    /\ tables = NoTables
    /\ pc = "resolver"
    /\ question = NoQuestion
    /\ ResolverIdle
    /\ NamingIdle

Top == stack[Len(stack)]
Dep == Head(Top.deps)
Advance == [stack EXCEPT ![Len(stack)].deps = Tail(@)]
Pop == SubSeq(stack, 1, Len(stack) - 1)

\* A resolver that keeps its visited set from one call to the next.
BeginKeepsVisited(fn) ==
    /\ target' = fn
    /\ result' = NoResult
    /\ pc' = "running"
    /\ stack' = <<[fname |-> fn,
                   deps |-> SetOrder(module_info.functions[fn] \cap all_functions)]>>
    /\ ordered' = <<>>
    /\ visited' = visited
    /\ expanded' = [n \in Names |-> 0]
    /\ steps' = 0

\* Lines 199-211: analyze(), the direct dependencies, the empty locals.
Begin(fn) ==
    /\ target' = fn
    /\ IF fn \notin DOMAIN module_info.functions
       THEN /\ result' = <<>>
            /\ pc' = "returned"
            /\ stack' = <<>>
       ELSE /\ result' = NoResult
            /\ pc' = "running"
            /\ stack' = <<[fname |-> fn,
                           deps |-> SetOrder(module_info.functions[fn] \cap all_functions)]>>
    /\ ordered' = <<>>
    /\ visited' = {}
    /\ expanded' = [n \in Names |-> 0]
    /\ steps' = 0

Call(fn) ==
    /\ pc = "resolver"
    /\ Begin(fn)
    /\ previous' = NoResult
    /\ UNCHANGED <<inputs, question, class_locals, naming_vars>>

\* The same call once more, on the same analyzer.
CallAgain ==
    /\ pc = "returned"
    /\ previous = NoResult
    /\ Begin(target)
    /\ previous' = result
    /\ UNCHANGED <<inputs, question, class_locals, naming_vars>>

\* The loop takes a dependency that is not visited: line 221 filters it
\* out (inner loops only), or visit returns at once on line 214-215.
VisitSkip ==
    /\ pc = "running"
    /\ Top.deps # <<>>
    /\ \/ Len(stack) > 1 /\ Dep \notin all_functions
       \/ Dep \in visited
       \/ Dep = target
    /\ stack' = Advance
    /\ steps' = steps + 1
    /\ UNCHANGED <<inputs, pc, question, target, ordered, visited, expanded,
                   result, previous, class_locals, naming_vars>>

\* A visit that does not stop at the target of the call.
VisitEnterNoTargetGuard ==
    /\ pc = "running"
    /\ Top.deps # <<>>
    /\ (Len(stack) > 1) => (Dep \in all_functions)
    /\ Dep \notin visited
    /\ visited' = visited \cup {Dep}
    /\ stack' = Append(Advance,
                       [fname |-> Dep, deps |-> SetOrder(module_info.functions[Dep])])
    /\ expanded' = [expanded EXCEPT ![Dep] = @ + 1]
    /\ steps' = steps + 1
    /\ UNCHANGED <<inputs, pc, question, target, ordered, result, previous,
                   class_locals, naming_vars>>

\* visit(dep) passes the guard: lines 216-220.
VisitEnter ==
    /\ pc = "running"
    /\ Top.deps # <<>>
    /\ (Len(stack) > 1) => (Dep \in all_functions)
    /\ Dep \notin visited
    /\ Dep # target
    /\ visited' = visited \cup {Dep}
    /\ IF Dep \in DOMAIN module_info.functions
       THEN /\ stack' = Append(Advance,
                               [fname |-> Dep, deps |-> SetOrder(module_info.functions[Dep])])
            /\ expanded' = [expanded EXCEPT ![Dep] = @ + 1]
       ELSE /\ stack' = Advance
            /\ UNCHANGED expanded
    /\ steps' = steps + 1
    /\ UNCHANGED <<inputs, pc, question, target, ordered, result, previous,
                   class_locals, naming_vars>>

\* A visit that puts its function in front of the list.
VisitReturnPrepends ==
    /\ pc = "running"
    /\ Len(stack) > 1
    /\ Top.deps = <<>>
    /\ ordered' = <<Top.fname>> \o ordered
    /\ stack' = Pop
    /\ steps' = steps + 1
    /\ UNCHANGED <<inputs, pc, question, target, visited, expanded, result,
                   previous, class_locals, naming_vars>>

\* The loop of a visit is over: line 223, and visit returns.
VisitReturn ==
    /\ pc = "running"
    /\ Len(stack) > 1
    /\ Top.deps = <<>>
    /\ ordered' = Append(ordered, Top.fname)
    /\ stack' = Pop
    /\ steps' = steps + 1
    /\ UNCHANGED <<inputs, pc, question, target, visited, expanded, result,
                   previous, class_locals, naming_vars>>

\* The outer loop is over: line 229.
Return ==
    /\ pc = "running"
    /\ Len(stack) = 1
    /\ Top.deps = <<>>
    /\ result' = ordered
    /\ pc' = "returned"
    /\ stack' = <<>>
    /\ steps' = steps + 1
    /\ UNCHANGED <<inputs, question, target, ordered, visited, expanded,
                   previous, class_locals, naming_vars>>

NextResolve ==
    \/ \E fn \in all_functions : Call(fn)
    \/ CallAgain
    \/ VisitSkip
    \/ VisitEnter
    \/ VisitReturn
    \/ Return

SpecResolve == InitResolve /\ [][NextResolve]_vars

\* --------------------- process_class.resolve_function_deps, step by step
\* Lines 395-431 of process_class, executed statement by statement; the
\* frames of the stack are the loops of line 422 (outer) and line 411.

\* process_class also reads the dependencies of the class it is called for.
TraversalSources ==
    SubsetsUpTo((FunctionNames \cup {<<"class", 1>>})
                    \X (FunctionNames \cup {<<"class", 1>>}), MaxCalls)

InitTraverse ==
    /\ \E source \in TraversalSources : module_info = analyze(source)
    /\ setup_code = {}
    /\ hash_order \in ResolverHashOrders
    /\ redefined = {}
    /\ tree = <<>>
    /\ tables = NoTables
    /\ pc = "resolver"
    /\ question = NoQuestion
    /\ ResolverIdle
    /\ NamingIdle

\* Lines 395-401 and the start of the loop of line 422.
ClassCall(class_name) ==
    /\ pc = "resolver"
    /\ target' = class_name
    /\ pc' = "class_running"
    /\ stack' = <<[fname |-> class_name,
                   deps |-> SetOrder(module_info.classes[class_name] \cap all_functions)]>>
    /\ all_deps_ordered' = <<>>
    /\ visited_funcs' = {}
    /\ class_deps_set' = {}
    /\ expanded' = [n \in Names |-> 0]
    /\ steps' = 0
    /\ UNCHANGED <<inputs, question, ordered, visited, result, previous, naming_vars>>

\* resolve_function_deps returns at once: lines 405-406.
ResolveSkip ==
    /\ pc = "class_running"
    /\ Top.deps # <<>>
    /\ Dep \in visited_funcs \/ Dep \notin all_functions
    /\ stack' = Advance
    /\ steps' = steps + 1
    /\ UNCHANGED <<inputs, pc, question, target, ordered, visited, expanded,
                   result, previous, class_locals, naming_vars>>

\* A resolve_function_deps without the visited_funcs guard.
ResolveEnterNoVisitedGuard ==
    /\ pc = "class_running"
    /\ Top.deps # <<>>
    /\ Dep \in all_functions
    /\ visited_funcs' = visited_funcs \cup {Dep}
    /\ stack' = Append(Advance,
                       [fname |-> Dep,
                        deps |-> SetOrder(module_info.functions[Dep] \cap all_functions)])
    /\ expanded' = [expanded EXCEPT ![Dep] = @ + 1]
    /\ steps' = steps + 1
    /\ UNCHANGED <<inputs, pc, question, target, ordered, visited, result,
                   previous, all_deps_ordered, class_deps_set, naming_vars>>

\* resolve_function_deps passes the guard: lines 407-411.
ResolveEnter ==
    /\ pc = "class_running"
    /\ Top.deps # <<>>
    /\ Dep \notin visited_funcs
    /\ Dep \in all_functions
    /\ visited_funcs' = visited_funcs \cup {Dep}
    /\ stack' = Append(Advance,
                       [fname |-> Dep,
                        deps |-> SetOrder(module_info.functions[Dep] \cap all_functions)])
    /\ expanded' = [expanded EXCEPT ![Dep] = @ + 1]
    /\ steps' = steps + 1
    /\ UNCHANGED <<inputs, pc, question, target, ordered, visited, result,
                   previous, all_deps_ordered, class_deps_set, naming_vars>>

\* The loop of line 411 is over: lines 414-419.
ResolveReturn ==
    /\ pc = "class_running"
    /\ Len(stack) > 1
    /\ Top.deps = <<>>
    /\ class_deps_set' = class_deps_set \cup func_class_deps(Top.fname)
    /\ all_deps_ordered' = Append(all_deps_ordered, Top.fname)
    /\ stack' = Pop
    /\ steps' = steps + 1
    /\ UNCHANGED <<inputs, pc, question, target, ordered, visited, expanded,
                   result, previous, visited_funcs, naming_vars>>

\* The loop of line 422 is over: lines 425-431, and the lists are final.
ClassReturn ==
    /\ pc = "class_running"
    /\ Len(stack) = 1
    /\ Top.deps = <<>>
    /\ LET with_direct ==
               class_deps_set \cup
               {dep \in module_info.classes[target] :
                   dep \in all_classes /\ dep # target}
           class_deps == SetOrder(with_direct \ {target})
       IN  /\ class_deps_set' = with_direct
           /\ question' =
                  [name |-> target,
                   kind |-> "class",
                   class_deps |-> class_deps,
                   dependencies |-> all_deps_ordered,
                   template |-> build_template(class_deps \o all_deps_ordered,
                                               dependency_code(class_deps,
                                                               all_deps_ordered))]
    /\ pc' = "class_returned"
    /\ stack' = <<>>
    /\ steps' = steps + 1
    /\ UNCHANGED <<inputs, target, ordered, visited, expanded, result, previous,
                   all_deps_ordered, visited_funcs, naming_vars>>

NextTraverse ==
    \/ \E fn \in all_functions : Call(fn)
    \/ VisitSkip
    \/ VisitEnter
    \/ VisitReturn
    \/ Return
    \/ ClassCall(<<"class", 1>>)
    \/ ResolveSkip
    \/ ResolveEnter
    \/ ResolveReturn
    \/ ClassReturn

SpecTraverse == InitTraverse /\ [][NextTraverse]_vars

\* ------------------------------------------------------------------ text
\* Source text and generated text are sequences of characters.
Comma == <<",", " ">>

RECURSIVE join(_, _)
\* sep.join(parts)
join(sep, parts) ==
    IF parts = <<>> THEN <<>>
    ELSE IF Len(parts) = 1 THEN parts[1]
    ELSE parts[1] \o sep \o join(sep, Tail(parts))

RECURSIVE concat(_, _, _)
\* The concatenation of pieces[lo], ..., pieces[hi].
concat(pieces, lo, hi) ==
    IF lo > hi THEN <<>>
    ELSE IF lo = hi THEN pieces[lo]
    ELSE concat(pieces, lo, (lo + hi) \div 2)
             \o concat(pieces, (lo + hi) \div 2 + 1, hi)

\* The positions of s at which old occurs.
occurrences(s, old) ==
    {i \in 1..(Len(s) - Len(old) + 1) : SubSeq(s, i, i + Len(old) - 1) = old}

RECURSIVE taken(_, _, _)
\* The occurrence at i, of length k, is replaced: no replaced occurrence
\* overlaps it from the left.
taken(starts, k, i) ==
    i \in starts /\ \A j \in starts : (i - k < j /\ j < i) => ~taken(starts, k, j)

\* What each position of s gives once the occurrences of length k that
\* start at the positions replaced are replaced by new.
pieces_of(s, k, new, replaced) ==
    [i \in 1..Len(s) |->
        IF i \in replaced THEN new
        ELSE IF \E j \in replaced : j < i /\ i < j + k THEN <<>>
        ELSE <<s[i]>>]

\* The occurrences among starts that are replaced.
replaced_of(starts, k) == {i \in starts : taken(starts, k, i)}

\* s.replace(old, new): the occurrences of old, leftmost first and without
\* overlap, replaced by new.
replace(s, old, new) ==
    concat(pieces_of(s, Len(old), new, replaced_of(occurrences(s, old), Len(old))),
           1, Len(s))

\* text.replace('self.', '')
strip_self(text) == replace(text, <<"s", "e", "l", "f", ".">>, <<>>)

\* text.replace('\r\n', '\n').replace('\r', '\n')
normalise_newlines(text) == replace(replace(text, <<"\r", "\n">>, <<"\n">>), <<"\r">>, <<"\n">>)

RECURSIVE indentation(_)
\* "    " * level
indentation(level) == IF level = 0 THEN <<>> ELSE <<" ", " ", " ", " ">> \o indentation(level - 1)

\* ------------------------------------------------------- the syntax tree
\* The nodes of ast that the transformer tells apart.  Deep stands for an
\* expression nested deeper than the recursion limit allows ast.unparse to
\* walk (a chain of some hundreds of operators): unparsing it raises
\* RecursionError.  BinOp is the operator + and BoolOp the operator or, of
\* two operands.
ast_Name(id) == [node |-> "Name", id |-> id]
ast_Attribute(value, attr) == [node |-> "Attribute", value |-> value, attr |-> attr]
ast_Num(text) == [node |-> "Constant", type |-> "int", value |-> text]
ast_Str(text) == [node |-> "Constant", type |-> "str", value |-> text]
ast_Call(func, args) == [node |-> "Call", func |-> func, args |-> args]
ast_List(elts) == [node |-> "List", elts |-> elts]
ast_Dict(keys, values) == [node |-> "Dict", keys |-> keys, values |-> values]
ast_BinOp(left, right) == [node |-> "BinOp", left |-> left, right |-> right]
ast_BoolOp(left, right) == [node |-> "BoolOp", left |-> left, right |-> right]
ast_Deep == [node |-> "Deep"]

ast_Expr(value) == [node |-> "Expr", value |-> value]
ast_Assign(tgt, value) == [node |-> "Assign", target |-> tgt, value |-> value]
ast_With(items, body) == [node |-> "With", items |-> items, body |-> body]
ast_For(tgt, iter, body) == [node |-> "For", target |-> tgt, iter |-> iter, body |-> body]
ast_FunctionDef(name, body) == [node |-> "FunctionDef", name |-> name, body |-> body]

RecursionError == <<"RecursionError">>

\* None, where a text is expected.
None == <<"None">>

\* One of the results raised.
any_raised(results) == \E i \in 1..Len(results) : results[i] = RecursionError

\* repr of a string constant, as ast.unparse writes it.
repr_str(value) ==
    <<"'">> \o replace(replace(replace(value, <<"\\">>, <<"\\", "\\">>), <<"\n">>, <<"\\", "n">>), <<"\r">>, <<"\\", "r">>)
            \o <<"'">>

\* The expressions directly below an expression.
children(e) ==
    IF e.node = "Attribute" THEN <<e.value>>
    ELSE IF e.node = "Call" THEN <<e.func>> \o e.args
    ELSE IF e.node = "List" THEN e.elts
    ELSE IF e.node = "Dict" THEN e.keys \o e.values
    ELSE <<e.left, e.right>>

\* The text of a list or a dict display whose elements have the texts parts
\* (for a dict, the keys and then the values).
display(e, parts) ==
    IF e.node = "List" THEN <<"[">> \o join(Comma, parts) \o <<"]">>
    ELSE <<"{">> \o join(Comma, [i \in 1..Len(e.keys) |->
                                  parts[i] \o <<":", " ">> \o parts[Len(e.keys) + i]])
                 \o <<"}">>

\* The text of an expression from the texts of the expressions below it.
write_expr(e, parts) ==
    IF any_raised(parts) THEN RecursionError
    ELSE IF e.node = "Attribute" THEN parts[1] \o <<".">> \o e.attr
    ELSE IF e.node = "Call"
         THEN parts[1] \o <<"(">> \o join(Comma, Tail(parts)) \o <<")">>
    ELSE IF e.node = "BinOp" THEN parts[1] \o <<" ", "+", " ">> \o parts[2]
    ELSE IF e.node = "BoolOp" THEN parts[1] \o <<" ", "o", "r", " ">> \o parts[2]
    ELSE display(e, parts)

\* The i-th expression below e is written between parentheses: an operator
\* below an attribute, as the function of a call, on the right of the same
\* operator, or below an operator that binds tighter.
needs_parentheses(e, i, child) ==
    \/ e.node = "Attribute" /\ child.node \in {"BinOp", "BoolOp"}
    \/ e.node = "Call" /\ i = 1 /\ child.node \in {"BinOp", "BoolOp"}
    \/ e.node = "BinOp" /\ (child.node = "BoolOp" \/ (child.node = "BinOp" /\ i = 2))
    \/ e.node = "BoolOp" /\ child.node = "BoolOp"

\* A text between parentheses.
parenthesised(text) == IF text = RecursionError THEN text ELSE <<"(">> \o text \o <<")">>

RECURSIVE unparse_expr(_)
\* ast.unparse of an expression.
unparse_expr(e) ==
    IF e.node = "Deep" THEN RecursionError
    ELSE IF e.node = "Name" THEN e.id
    ELSE IF e.node = "Constant"
         THEN IF e.type = "str" THEN repr_str(e.value) ELSE e.value
    ELSE write_expr(e, [i \in 1..Len(children(e)) |->
                           IF needs_parentheses(e, i, children(e)[i])
                           THEN parenthesised(unparse_expr(children(e)[i]))
                           ELSE unparse_expr(children(e)[i])])

\* The expressions of the first line of a statement.
header(s) ==
    IF s.node = "Expr" THEN <<s.value>>
    ELSE IF s.node = "Assign" THEN <<s.target, s.value>>
    ELSE IF s.node = "For" THEN <<s.target, s.iter>>
    ELSE s.items

\* A statement at nesting depth level, from the texts of the expressions of
\* its first line and the text of its body.
write_stmt(s, level, parts, body) ==
    IF any_raised(parts) \/ body = RecursionError THEN RecursionError
    ELSE indentation(level)
         \o (IF s.node = "Expr" THEN parts[1]
             ELSE IF s.node = "Assign" THEN parts[1] \o <<" ", "=", " ">> \o parts[2]
             ELSE IF s.node = "For"
                  THEN <<"f", "o", "r", " ">> \o parts[1] \o <<" ", "i", "n", " ">> \o parts[2] \o <<":">>
             ELSE <<"w", "i", "t", "h", " ">> \o join(Comma, parts) \o <<":">>)
         \o body

\* A line put before the lines of the rest of a block.
write_line(first, rest) ==
    IF first = RecursionError \/ rest = RecursionError THEN RecursionError
    ELSE <<"\n">> \o first \o rest

RECURSIVE unparse_stmt(_, _), unparse_body(_, _)
\* ast.unparse of a statement written at nesting depth level: its lines,
\* each behind its indentation, joined by newlines.
unparse_stmt(s, level) ==
    write_stmt(s, level,
               [i \in 1..Len(header(s)) |-> unparse_expr(header(s)[i])],
               IF s.node \in {"For", "With"} THEN unparse_body(s.body, level + 1)
               ELSE <<>>)

\* The statements of a block, each on a new line.
unparse_body(stmts, level) ==
    IF stmts = <<>> THEN <<>>
    ELSE write_line(unparse_stmt(Head(stmts), level), unparse_body(Tail(stmts), level))

\* ast.unparse
unparse(node) ==
    IF node.node \in {"Expr", "Assign", "For", "With"} THEN unparse_stmt(node, 0)
    ELSE unparse_expr(node)

\* text.replace('self.', '') of a text that was produced.
without_self(text) == IF text = RecursionError THEN RecursionError ELSE strip_self(text)

\* ast.unparse(node).replace('self.', '')
unparse_stripped(node) == without_self(unparse(node))

\* ------------------------------------------------- AssertionTransformer
\* The words of the transformer.
assertEqual == <<"a", "s", "s", "e", "r", "t", "E", "q", "u", "a", "l">>
assertTrue == <<"a", "s", "s", "e", "r", "t", "T", "r", "u", "e">>
assertFalse == <<"a", "s", "s", "e", "r", "t", "F", "a", "l", "s", "e">>
assertIn == <<"a", "s", "s", "e", "r", "t", "I", "n">>
assertRaises == <<"a", "s", "s", "e", "r", "t", "R", "a", "i", "s", "e", "s">>
PrintOpen == <<"p", "r", "i", "n", "t", "(">>
TrueText == <<"T", "r", "u", "e">>
FalseText == <<"F", "a", "l", "s", "e">>
OkText == <<"O", "K">>
TryHead == <<"t", "r", "y", ":", "\n", " ", " ", " ", " ">>
PrintKo == <<"\n", " ", " ", " ", " ", "p", "r", "i", "n", "t", "(", "\"", "K", "O", "\"", ")", "\n", "e", "x", "c", "e", "p", "t", " ">>
PrintOk == <<":", "\n", " ", " ", " ", " ", "p", "r", "i", "n", "t", "(", "\"", "O", "K", "\"", ")">>
NewlineIndent == <<"\n", " ", " ", " ", " ">>

\* What the transform of a statement returns: the code, and the expected
\* output or None.  The code is empty for a statement that is dropped.  The
\* pair Raise stands for the RecursionError of ast.unparse leaving the
\* transform.
Pair(code, expected) == [code |-> code, expected |-> expected]
Raise == Pair(RecursionError, None)

\* One of the transforms raised.
any_raise(pairs) == \E i \in 1..Len(pairs) : pairs[i] = Raise

\* return code, None
code_only(code) == IF code = RecursionError THEN Raise ELSE Pair(code, None)

\* return f"print({code})", expected
print_of(code, expected) ==
    IF code = RecursionError \/ expected = RecursionError THEN Raise
    ELSE Pair(PrintOpen \o code \o <<")">>, expected)

\* A call with too few arguments returned with its qualifier stripped.
untransformed_stripped(call) == code_only(without_self(unparse(call)))

\* A call with too few arguments: return ast.unparse(call), None
untransformed(call) == code_only(unparse(call))

\* The code of a statement passed through: ast.unparse(...).replace('self.', '')
pass_through(node) == code_only(unparse_stripped(node))

\* The value of a list or dict from the values of its elements.
display_value(node, values) ==
    IF any_raised(values) THEN RecursionError ELSE display(node, values)

RECURSIVE _extract_value(_)
\* AssertionTransformer._extract_value
_extract_value(node) ==
    IF node.node = "Constant" THEN node.value
    ELSE IF node.node \in {"List", "Dict"}
         THEN display_value(node, [i \in 1..Len(children(node)) |->
                                      _extract_value(children(node)[i])])
    ELSE unparse_stripped(node)

\* AssertionTransformer._transform_assert_equal
_transform_assert_equal(call) ==
    IF Len(call.args) < 2 THEN untransformed(call)
    ELSE print_of(unparse_stripped(call.args[1]), _extract_value(call.args[2]))

\* _transform_assert_true and _transform_assert_false: literal is the
\* expected text, True or False.
_transform_assert_bool(call, literal) ==
    IF Len(call.args) < 1 THEN untransformed(call)
    ELSE print_of(unparse_stripped(call.args[1]), literal)

_transform_assert_true(call) == _transform_assert_bool(call, TrueText)

_transform_assert_false(call) == _transform_assert_bool(call, FalseText)

\* f"{item_code} in {container_code}"
membership(item_code, container_code) ==
    IF item_code = RecursionError \/ container_code = RecursionError
    THEN RecursionError
    ELSE item_code \o <<" ", "i", "n", " ">> \o container_code

\* AssertionTransformer._transform_assert_in
_transform_assert_in(call) ==
    IF Len(call.args) < 2 THEN untransformed(call)
    ELSE print_of(membership(unparse_stripped(call.args[1]),
                             unparse_stripped(call.args[2])),
                  TrueText)

\* AssertionTransformer._transform_expr
_transform_expr(expr) ==
    IF expr.node = "Call" /\ expr.func.node = "Attribute"
       /\ expr.func.attr \in {assertEqual, assertTrue, assertFalse, assertIn}
    THEN IF expr.func.attr = assertEqual THEN _transform_assert_equal(expr)
         ELSE IF expr.func.attr = assertTrue THEN _transform_assert_true(expr)
         ELSE IF expr.func.attr = assertFalse THEN _transform_assert_false(expr)
         ELSE _transform_assert_in(expr)
    ELSE pass_through(expr)

\* The try statement of _transform_assert_raises, from the text of the
\* exception type and the texts of the statements of the body.
guarded(exception_type, stmts) ==
    IF exception_type = RecursionError \/ any_raised(stmts) THEN Raise
    ELSE Pair(TryHead \o join(NewlineIndent, stmts) \o PrintKo
                  \o exception_type \o PrintOk,
              OkText)

\* AssertionTransformer._transform_assert_raises
_transform_assert_raises(call, body) ==
    IF Len(call.args) < 1 THEN untransformed(call)
    ELSE guarded(unparse(call.args[1]),
                 [i \in 1..Len(body) |-> unparse_stripped(body[i])])

\* The first item of a with statement that is a call of assertRaises, 0 if none.
RECURSIVE first_assert_raises(_, _)
first_assert_raises(items, i) ==
    IF i > Len(items) THEN 0
    ELSE IF items[i].node = "Call" /\ items[i].func.node = "Attribute"
            /\ items[i].func.attr = assertRaises
         THEN i
         ELSE first_assert_raises(items, i + 1)

\* AssertionTransformer._transform_with
_transform_with(with_stmt) ==
    IF first_assert_raises(with_stmt.items, 1) > 0
    THEN _transform_assert_raises(
             with_stmt.items[first_assert_raises(with_stmt.items, 1)], with_stmt.body)
    ELSE pass_through(with_stmt)

\* AssertionTransformer._transform_for
_transform_for(for_stmt) == pass_through(for_stmt)

\* AssertionTransformer._transform_statement
_transform_statement(stmt) ==
    IF stmt.node = "Expr" THEN _transform_expr(stmt.value)
    ELSE IF stmt.node = "With" THEN _transform_with(stmt)
    ELSE IF stmt.node = "For" THEN _transform_for(stmt)
    ELSE pass_through(stmt)

\* A statement that is a bare constant: a docstring to the transformer.
is_docstring(stmt) == stmt.node = "Expr" /\ stmt.value.node = "Constant"

\* except Exception: return []
lines_or_nothing(body_lines) == IF any_raised(body_lines) THEN <<>> ELSE body_lines

\* The statements of a function body, the bare constants (docstrings) left out.
without_docstrings(body) == SelectSeq(body, LAMBDA stmt : ~is_docstring(stmt))

\* AssertionTransformer._extract_setup_body: the lines of the body of setUp,
\* or no line at all when anything raises.
_extract_setup_body(setup_def) ==
    lines_or_nothing([i \in 1..Len(without_docstrings(setup_def.body)) |->
                         unparse_stripped(without_docstrings(setup_def.body)[i])])

\* No setUp in the test class: TestClass.setup_code is None.
NoSetUp == [node |-> "None"]

\* The statements of a test method that transform_test_method transforms:
\* the body without a leading docstring.
test_body(test_func) ==
    IF test_func.body # <<>> /\ is_docstring(test_func.body[1])
    THEN Tail(test_func.body) ELSE test_func.body

\* The codes of the transforms, in order.
codes(pairs) == [i \in 1..Len(pairs) |-> pairs[i].code]

\* The expected outputs of the transforms that have one, the last first.
expected_of_last_first(pairs) ==
    [i \in 1..Len(SelectSeq(pairs, LAMBDA t : t.expected # None)) |->
        SelectSeq(pairs, LAMBDA t : t.expected # None)[
            Len(SelectSeq(pairs, LAMBDA t : t.expected # None)) + 1 - i].expected]

\* The expected outputs of the transforms that have one, in order.
expected_of(pairs) ==
    [i \in 1..Len(SelectSeq(pairs, LAMBDA t : t.expected # None)) |->
        SelectSeq(pairs, LAMBDA t : t.expected # None)[i].expected]

\* The MoodleTestCase of transform_test_method, from the lines of the setUp
\* and the transforms of the statements; Raise if one of them raised.
test_case(setup_body, transformed) ==
    IF any_raise(transformed) THEN Raise
    ELSE [testcode |-> normalise_newlines(join(<<"\n">>,
              setup_body \o codes(SelectSeq(transformed, LAMBDA t : t.code # <<>>)))),
          expected |-> normalise_newlines(join(<<"\n">>,
              expected_of(SelectSeq(transformed, LAMBDA t : t.code # <<>>))))]

\* AssertionTransformer.transform_test_method: the MoodleTestCase (testcode,
\* expected), or Raise.  method_source and setup_def are the function
\* definitions that the two source texts parse to.
transform_test_method(method_source, setup_def) ==
    test_case(IF setup_def # NoSetUp THEN _extract_setup_body(setup_def) ELSE <<>>,
              [i \in 1..Len(test_body(method_source)) |->
                  _transform_statement(test_body(method_source)[i])])

\* transform_test_method raises: the exception of a statement's transform.
transform_raises(method_source) ==
    transform_test_method(method_source, NoSetUp) = Raise

\* ------------------------------------------------- the naming transform
\* Names are sequences of characters.
Uppers == <<"A", "B", "C", "D", "E", "F", "G", "H", "I", "J", "K", "L", "M",
            "N", "O", "P", "Q", "R", "S", "T", "U", "V", "W", "X", "Y", "Z">>
Lowers == <<"a", "b", "c", "d", "e", "f", "g", "h", "i", "j", "k", "l", "m",
            "n", "o", "p", "q", "r", "s", "t", "u", "v", "w", "x", "y", "z">>
Digits == <<"0", "1", "2", "3", "4", "5", "6", "7", "8", "9">>

IsUpper(c) == c \in Range(Uppers)     \* [A-Z]
IsLower(c) == c \in Range(Lowers)     \* [a-z]
IsDigit(c) == c \in Range(Digits)     \* [0-9]

\* str.lower
lower(s) ==
    [i \in 1..Len(s) |->
        IF IsUpper(s[i]) THEN Lowers[CHOOSE k \in 1..Len(Uppers) : Uppers[k] = s[i]]
        ELSE s[i]]

startswith(s, prefix) ==
    Len(s) >= Len(prefix) /\ SubSeq(s, 1, Len(prefix)) = prefix

\* The end of the run [a-z]+ that starts at position i of s.
RECURSIVE LowerRunEnd(_, _)
LowerRunEnd(s, i) ==
    IF i < Len(s) /\ IsLower(s[i + 1]) THEN LowerRunEnd(s, i + 1) ELSE i

\* re.sub('(.)([A-Z][a-z]+)', r'\1_\2', s), scanning from position i: the
\* matches are taken leftmost first and do not overlap.
RECURSIVE sub_word(_, _)
sub_word(s, i) ==
    IF i > Len(s) THEN <<>>
    ELSE IF i + 2 <= Len(s) /\ IsUpper(s[i + 1]) /\ IsLower(s[i + 2])
         THEN LET e == LowerRunEnd(s, i + 2)
              IN  <<s[i], "_">> \o SubSeq(s, i + 1, e) \o sub_word(s, e + 1)
         ELSE <<s[i]>> \o sub_word(s, i + 1)

\* re.sub('([a-z0-9])([A-Z])', r'\1_\2', s), scanning from position i.
RECURSIVE sub_hump(_, _)
sub_hump(s, i) ==
    IF i > Len(s) THEN <<>>
    ELSE IF i + 1 <= Len(s) /\ (IsLower(s[i]) \/ IsDigit(s[i])) /\ IsUpper(s[i + 1])
         THEN <<s[i], "_", s[i + 1]>> \o sub_hump(s, i + 2)
         ELSE <<s[i]>> \o sub_hump(s, i + 1)

\* _camel_to_snake without its first substitution.
_camel_to_snake_one_pass(name) == lower(sub_hump(name, 1))

\* UnittestAnalyzer._camel_to_snake
_camel_to_snake(name) ==
    LET s1 == sub_word(name, 1)
    IN  lower(sub_hump(s1, 1))

\* UnittestAnalyzer._extract_tested_function_name
_extract_tested_function_name(class_name) ==
    IF startswith(class_name, <<"T", "e", "s", "t">>)
    THEN LET function_part == SubSeq(class_name, 5, Len(class_name))
             stripped == IF startswith(function_part, <<"_">>)
                         THEN Tail(function_part) ELSE function_part
         IN  _camel_to_snake(stripped)
    ELSE None

\* ------------------------------------------------------- the test file
\* A class definition of the test file: its name, the expressions of its
\* bases, and its body (function definitions and other statements).
ast_ClassDef(name, bases, body) ==
    [node |-> "ClassDef", name |-> name, bases |-> bases, body |-> body]

\* UnittestAnalyzer._is_test_class
_is_test_class(node) ==
    \E i \in 1..Len(node.bases) :
        LET base == node.bases[i]
        IN  \/ base.node = "Attribute" /\ base.attr = <<"T", "e", "s", "t", "C", "a", "s", "e">>
            \/ base.node = "Name" /\ base.id = <<"T", "e", "s", "t", "C", "a", "s", "e">>

\* _extract_test_class returns None: no tested name in the class name.
no_tested_function(node) ==
    LET tested_function == _extract_tested_function_name(node.name)
    IN  tested_function = None \/ tested_function = <<>>

\* UnittestAnalyzer._extract_test_class, when it returns a TestClass: a
\* later setUp replaces an earlier one, the methods are the test_ functions
\* of the body as they are met, and the first of them is marked.
_extract_test_class(node) ==
    LET defs == SelectSeq(node.body, LAMBDA item : item.node = "FunctionDef")
        setups == SelectSeq(defs, LAMBDA item : item.name = <<"s", "e", "t", "U", "p">>)
        tests == SelectSeq(defs, LAMBDA item :
                     item.name # <<"s", "e", "t", "U", "p">> /\ startswith(item.name, <<"t", "e", "s", "t", "_">>))
    IN  [name |-> node.name,
         tested_function |-> _extract_tested_function_name(node.name),
         methods |-> [i \in 1..Len(tests) |->
                         [name |-> tests[i].name, source_code |-> tests[i],
                          is_first |-> i = 1]],
         setup_code |-> IF setups = <<>> THEN NoSetUp ELSE setups[Len(setups)]]

\* test_classes[key] = test_class, with the earlier entry of the key kept.
dict_setdefault(mapping, key, test_class) ==
    [k \in DOMAIN mapping \cup {key} |->
        IF k \in DOMAIN mapping THEN mapping[k] ELSE test_class]

\* test_classes[key] = test_class
dict_set(mapping, key, test_class) ==
    [k \in DOMAIN mapping \cup {key} |->
        IF k = key THEN test_class ELSE mapping[k]]

\* UnittestAnalyzer.analyze, from statement i of the tree on.
RECURSIVE analyze_from(_, _, _)
analyze_from(tree_body, i, mapping) ==
    IF i > Len(tree_body) THEN mapping
    ELSE LET node == tree_body[i]
         IN  IF node.node = "ClassDef" /\ _is_test_class(node)
                                       /\ ~no_tested_function(node)
             THEN LET test_class == _extract_test_class(node)
                  IN  analyze_from(tree_body, i + 1,
                          dict_set(mapping, test_class.tested_function,
                                   test_class))
             ELSE analyze_from(tree_body, i + 1, mapping)

\* UnittestAnalyzer.analyze: the dictionary test_classes, tested name -> TestClass.
analyze_unittest(tree_body) == analyze_from(tree_body, 1, <<>>)

\* validate_test_coverage reporting only the first name without a test class.
missing_tests_first(functions, mapping) ==
    LET missing == SelectSeq(functions, LAMBDA func_name :
                                 func_name \notin DOMAIN mapping)
    IN  IF missing = <<>> THEN <<>> ELSE <<missing[1]>>

\* validate_test_coverage: the names without a test class, in their order.
missing_tests(functions, mapping) ==
    SelectSeq(functions, LAMBDA func_name : func_name \notin DOMAIN mapping)

MissingHead == <<"F", "o", "n", "c", "t", "i", "o", "n", "s", " ", "s", "a", "n", "s", " ", "c", "l", "a", "s", "s", "e", " ", "d", "e", " ", "t", "e", "s", "t", ":", " ">>
MissingTail == <<"\n", "C", "h", "a", "q", "u", "e", " ", "f", "o", "n", "c", "t", "i", "o", "n", " ", "d", "o", "i", "t", " ", "a", "v", "o", "i", "r", " ", "u", "n", "e", " ", "c", "l", "a", "s", "s", "e", " ", "T", "e", "s", "t", "{", "N", "o", "m", "F", "o", "n", "c", "t", "i", "o", "n", "}">>

\* validate_test_coverage: the message of its ValueError.
missing_message(missing) == MissingHead \o join(Comma, missing) \o MissingTail

\* MoodleTestCase(testcode, expected, useasexample, ...) of process_function
\* and process_class, from what transform_test_method returned.
MoodleTestCase(moodle_test, useasexample) ==
    IF moodle_test = Raise THEN Raise
    ELSE [testcode |-> moodle_test.testcode, expected |-> moodle_test.expected,
          useasexample |-> useasexample]

\* The loop over test_class.methods with every test case flagged as the
\* example.
testcases_all_examples(test_class) ==
    [i \in 1..Len(test_class.methods) |->
        MoodleTestCase(transform_test_method(test_class.methods[i].source_code,
                                             test_class.setup_code),
                       1)]

\* process_function and process_class, the loop over test_class.methods:
\* the test cases it builds, Raise where a transformation raises.
testcases(test_class) ==
    [i \in 1..Len(test_class.methods) |->
        MoodleTestCase(transform_test_method(test_class.methods[i].source_code,
                                             test_class.setup_code),
                       IF test_class.methods[i].is_first THEN 1 ELSE 0)]

\* The MoodleQuestion of a symbol, as far as main's loops are concerned.
MoodleQuestion(name, cases) == [name |-> name, testcases |-> cases]

\* -------------------------------------------------- files of the model
Self == ast_Name(<<"s", "e", "l", "f">>)

\* The statement self.<method>(<args>).
assert_call(method, args) == ast_Expr(ast_Call(ast_Attribute(Self, method), args))

\* def test_double(self): self.assertEqual(double(5), 10)
ExampleTest ==
    ast_FunctionDef(<<"t", "e", "s", "t", "_", "d", "o", "u", "b", "l", "e">>,
        <<assert_call(assertEqual,
                      <<ast_Call(ast_Name(<<"d", "o", "u", "b", "l", "e">>), <<ast_Num(<<"5">>)>>), ast_Num(<<"1", "0">>)>>)>>)

\* def test_total(self): self.assertTrue(double(self.total))
SecondTest ==
    ast_FunctionDef(<<"t", "e", "s", "t", "_", "t", "o", "t", "a", "l">>,
        <<assert_call(assertTrue,
                      <<ast_Call(ast_Name(<<"d", "o", "u", "b", "l", "e">>),
                                 <<ast_Attribute(Self, <<"t", "o", "t", "a", "l">>)>>)>>)>>)

\* A test whose first argument is nested too deep for ast.unparse.
DeepTest ==
    ast_FunctionDef(<<"t", "e", "s", "t", "_", "d", "e", "e", "p">>, <<assert_call(assertEqual, <<ast_Deep, ast_Num(<<"1">>)>>)>>)

\* def setUp(self): self.total = 3
ExampleSetUp ==
    ast_FunctionDef(<<"s", "e", "t", "U", "p">>, <<ast_Assign(ast_Attribute(Self, <<"t", "o", "t", "a", "l">>), ast_Num(<<"3">>))>>)

\* A setUp whose assigned value is nested too deep for ast.unparse.
DeepSetUp ==
    ast_FunctionDef(<<"s", "e", "t", "U", "p">>, <<ast_Assign(ast_Attribute(Self, <<"t", "o", "t", "a", "l">>), ast_Deep)>>)

\* A method that is neither setUp nor a test, and a class attribute.
HelperMethod == ast_FunctionDef(<<"h", "e", "l", "p", "e", "r">>, <<ast_Expr(ast_Call(ast_Name(<<"f">>), <<>>))>>)
ClassAttribute == ast_Assign(ast_Name(<<"l", "i", "m", "i", "t">>), ast_Num(<<"3">>))

TestCaseBase == <<ast_Name(<<"T", "e", "s", "t", "C", "a", "s", "e">>)>>
UnittestTestCaseBase == <<ast_Attribute(ast_Name(<<"u", "n", "i", "t", "t", "e", "s", "t">>), <<"T", "e", "s", "t", "C", "a", "s", "e">>)>>
ObjectBase == <<ast_Name(<<"o", "b", "j", "e", "c", "t">>)>>

ExampleBody == <<ExampleSetUp, ExampleTest, SecondTest>>
DeepBody == <<ExampleTest, DeepTest>>

\* A file: whether it parses, and what ast.parse finds in it.
FunctionFile(parses, functions, classes) ==
    [parses |-> parses, functions |-> functions, classes |-> classes]
UnittestFile(parses, body) == [parses |-> parses, body |-> body]

NoFile == FunctionFile(FALSE, <<>>, <<>>)
NoUnittestFile == UnittestFile(FALSE, <<>>)

\* No document written, and main still running.
NoOutput == [written |-> FALSE, questions |-> <<>>]
NoExit == -1

\* ------------------------------------------------------ main, stepwise
\* main, lines 540-617, one statement at a time.  function_file and
\* unittest_file are the two files it is given; position is the index, in
\* function_names + class_names, of the symbol the loops of lines 566-587
\* are at.

\* module_info = analyze_python_file(args.function_file)
AnalyzePythonFile ==
    /\ pc = "start"
    /\ function_file.parses
    /\ pc' = "module_analyzed"
    /\ UNCHANGED <<function_file, unittest_file, test_classes, function_names,
                   class_names, coverage, error_msg, position, questions, output,
                   exit_status, inputs, question, resolver_vars>>

\* ... raises SyntaxError: except Exception, return 1.
PythonFileSyntaxError ==
    /\ pc = "start"
    /\ ~function_file.parses
    /\ pc' = "failed"
    /\ exit_status' = 1
    /\ UNCHANGED <<function_file, unittest_file, test_classes, function_names,
                   class_names, coverage, error_msg, position, questions, output,
                   inputs, question, resolver_vars>>

\* test_classes = analyze_unittest_file(unittest_file)
AnalyzeUnittestFile ==
    /\ pc = "module_analyzed"
    /\ unittest_file.parses
    /\ test_classes' = analyze_unittest(unittest_file.body)
    /\ pc' = "tests_analyzed"
    /\ UNCHANGED <<function_file, unittest_file, function_names, class_names,
                   coverage, error_msg, position, questions, output, exit_status,
                   inputs, question, resolver_vars>>

\* ... raises SyntaxError: except Exception, return 1.
UnittestFileSyntaxError ==
    /\ pc = "module_analyzed"
    /\ ~unittest_file.parses
    /\ pc' = "failed"
    /\ exit_status' = 1
    /\ UNCHANGED <<function_file, unittest_file, test_classes, function_names,
                   class_names, coverage, error_msg, position, questions, output,
                   inputs, question, resolver_vars>>

\* validate_test_coverage(all_names, test_classes) returns True ...
ValidateTestCoverage ==
    /\ pc = "tests_analyzed"
    /\ function_names' = function_file.functions
    /\ class_names' = function_file.classes
    /\ missing_tests(function_file.functions \o function_file.classes,
                     test_classes) = <<>>
    /\ coverage' = "True"
    /\ position' = 1
    /\ pc' = "validated"
    /\ UNCHANGED <<function_file, unittest_file, test_classes, error_msg, questions,
                   output, exit_status, inputs, question, resolver_vars>>

\* ... or raises ValueError(error_msg): except Exception, return 1.
CoverageError ==
    /\ pc = "tests_analyzed"
    /\ function_names' = function_file.functions
    /\ class_names' = function_file.classes
    /\ LET missing == missing_tests(function_file.functions \o function_file.classes,
                                    test_classes)
       IN  /\ missing # <<>>
           /\ error_msg' = missing_message(missing)
    /\ coverage' = "ValueError"
    /\ pc' = "failed"
    /\ exit_status' = 1
    /\ UNCHANGED <<function_file, unittest_file, test_classes, position, questions,
                   output, inputs, question, resolver_vars>>

\* The symbols the loops go through.
all_names == function_names \o class_names

\* questions.append(question), when process_function or process_class
\* returned a question with the test cases.
AppendQuestion(name, cases) ==
    /\ ~any_raise(cases)
    /\ questions' = Append(questions, MoodleQuestion(name, cases))

\* One iteration of "for function_name in function_names" (lines 566-575)
\* in which process_function returns.
FunctionQuestion ==
    /\ pc = "validated"
    /\ position <= Len(function_names)
    /\ IF function_names[position] \in DOMAIN test_classes
       THEN AppendQuestion(function_names[position],
                           testcases(test_classes[function_names[position]]))
       ELSE questions' = questions
    /\ position' = position + 1
    /\ UNCHANGED <<function_file, unittest_file, test_classes, function_names,
                   class_names, coverage, error_msg, output, exit_status, pc,
                   inputs, question, resolver_vars>>

\* One iteration of "for class_name in class_names" (lines 578-587) in
\* which process_class returns.
ClassQuestion ==
    /\ pc = "validated"
    /\ position > Len(function_names)
    /\ position <= Len(all_names)
    /\ IF all_names[position] \in DOMAIN test_classes
       THEN AppendQuestion(all_names[position],
                           testcases(test_classes[all_names[position]]))
       ELSE questions' = questions
    /\ position' = position + 1
    /\ UNCHANGED <<function_file, unittest_file, test_classes, function_names,
                   class_names, coverage, error_msg, output, exit_status, pc,
                   inputs, question, resolver_vars>>

\* process_function or process_class raises what the transformation of a
\* test method raised: except Exception, return 1.
TransformationError ==
    /\ pc = "validated"
    /\ position <= Len(all_names)
    /\ all_names[position] \in DOMAIN test_classes
    /\ any_raise(testcases(test_classes[all_names[position]]))
    /\ pc' = "failed"
    /\ exit_status' = 1
    /\ UNCHANGED <<function_file, unittest_file, test_classes, function_names,
                   class_names, coverage, error_msg, position, questions, output,
                   inputs, question, resolver_vars>>

\* save_to_file writing the document whatever the position of the loops.
SaveToFileEarly ==
    /\ pc = "validated"
    /\ output' = [written |-> TRUE, questions |-> questions]
    /\ pc' = "done"
    /\ exit_status' = 0
    /\ UNCHANGED <<function_file, unittest_file, test_classes, function_names,
                   class_names, coverage, error_msg, position, questions,
                   inputs, question, resolver_vars>>

\* generate_quiz(questions), save_to_file, return 0 (lines 589-613).
SaveToFile ==
    /\ pc = "validated"
    /\ position > Len(all_names)
    /\ output' = [written |-> TRUE, questions |-> questions]
    /\ pc' = "done"
    /\ exit_status' = 0
    /\ UNCHANGED <<function_file, unittest_file, test_classes, function_names,
                   class_names, coverage, error_msg, position, questions,
                   inputs, question, resolver_vars>>

NextMain ==
    \/ AnalyzePythonFile
    \/ PythonFileSyntaxError
    \/ AnalyzeUnittestFile
    \/ UnittestFileSyntaxError
    \/ ValidateTestCoverage
    \/ CoverageError
    \/ FunctionQuestion
    \/ ClassQuestion
    \/ TransformationError
    \/ SaveToFile

\* What main has before its first statement.
MainStart ==
    /\ test_classes = <<>>
    /\ function_names = <<>>
    /\ class_names = <<>>
    /\ coverage = "none"
    /\ error_msg = <<>>
    /\ position = 0
    /\ questions = <<>>
    /\ output = NoOutput
    /\ exit_status = NoExit
    /\ pc = "start"
    /\ module_info = analyze({})
    /\ setup_code = {}
    /\ hash_order = SetOrderOfFunctions \o SetOrderOfClasses
    /\ redefined = {}
    /\ tree = <<>>
    /\ tables = NoTables
    /\ question = NoQuestion
    /\ ResolverIdle

\* ---------------------------------------------------- names of the model
NameChars == {"a", "b", "A", "B", "1", "_"}

RECURSIVE SeqsUpTo(_, _)
SeqsUpTo(S, n) ==
    IF n = 0 THEN {<<>>}
    ELSE LET shorter == SeqsUpTo(S, n - 1)
         IN  shorter \cup {Append(s, c) : s \in shorter, c \in S}

\* Python identifiers of up to MaxNameLen characters.
Identifiers ==
    {s \in SeqsUpTo(NameChars, MaxNameLen) : s # <<>> /\ ~IsDigit(s[1])}

\* The symbols of the bundled example, input/test_minimal.py.
ExampleSymbols ==
    {<<"d", "o", "u", "b", "l", "e">>, <<"s", "o", "m", "m", "e", "_", "d", "o", "u", "b", "l", "e", "s">>, <<"m", "o", "y", "e", "n", "n", "e", "_", "d", "o", "u", "b", "l", "e", "s">>, <<"C", "a", "l", "c", "u", "l", "a", "t", "r", "i", "c", "e">>}

\* The test classes of the bundled example, input/test_minimal_unittest.py.
ExampleTestClasses ==
    {<<"T", "e", "s", "t", "D", "o", "u", "b", "l", "e">>, <<"T", "e", "s", "t", "S", "o", "m", "m", "e", "D", "o", "u", "b", "l", "e", "s">>, <<"T", "e", "s", "t", "M", "o", "y", "e", "n", "n", "e", "D", "o", "u", "b", "l", "e", "s">>, <<"T", "e", "s", "t", "_", "C", "a", "l", "c", "u", "l", "a", "t", "r", "i", "c", "e">>}

\* The names the naming convention is documented with.
DocumentedTestClasses == {<<"T", "e", "s", "t", "F", "e", "e", "t", "T", "o", "M", "e", "t", "e", "r">>, <<"T", "e", "s", "t", "_", "S", "o", "m", "m", "e">>, <<"T", "e", "s", "t", "H", "T", "T", "P", "R", "e", "q", "u", "e", "s", "t">>}

upper_char(c) ==
    IF IsLower(c) THEN Uppers[CHOOSE k \in 1..Len(Lowers) : Lowers[k] = c] ELSE c

\* The CamelCase form of a name: its words, split at "_", capitalised.
RECURSIVE Capitalised(_, _)
Capitalised(s, word_start) ==
    IF s = <<>> THEN <<>>
    ELSE IF Head(s) = "_" THEN Capitalised(Tail(s), TRUE)
    ELSE <<IF word_start THEN upper_char(Head(s)) ELSE Head(s)>>
         \o Capitalised(Tail(s), FALSE)

CamelCase(s) == Capitalised(s, TRUE)

\* The test class names the convention gives for a symbol.
ConventionNames(s) ==
    {<<"T", "e", "s", "t">> \o CamelCase(s), <<"T", "e", "s", "t", "_">> \o s}

\* The symbol of a module that defines one, and the name of the first class
\* of the test file.
symbol_name == (function_file.functions \o function_file.classes)[1]
test_class_name == unittest_file.body[1].name

\* main for a module that defines one symbol and a test file that holds one
\* test class: every name, and for the names of the example every way the
\* run can go.
InitNaming ==
    /\ \E symbol \in Identifiers \cup ExampleSymbols :
       \E class_name \in ConventionNames(symbol) \cup ExampleTestClasses
                          \cup DocumentedTestClasses :
        \/ /\ function_file = FunctionFile(TRUE, <<symbol>>, <<>>)
           /\ unittest_file =
                  UnittestFile(TRUE, <<ast_ClassDef(class_name, TestCaseBase, ExampleBody)>>)
        \/ /\ symbol \in ExampleSymbols
           /\ \/ /\ function_file \in {FunctionFile(FALSE, <<symbol>>, <<>>),
                                       FunctionFile(TRUE, <<>>, <<symbol>>)}
                 /\ unittest_file =
                        UnittestFile(TRUE, <<ast_ClassDef(class_name, TestCaseBase,
                                                          ExampleBody)>>)
              \/ /\ function_file = FunctionFile(TRUE, <<symbol>>, <<>>)
                 /\ \E parses \in BOOLEAN :
                    \E bases \in {TestCaseBase, UnittestTestCaseBase, ObjectBase} :
                    \E body \in {ExampleBody, DeepBody} :
                        unittest_file =
                            UnittestFile(parses, <<ast_ClassDef(class_name, bases, body)>>)
    /\ MainStart

SpecNaming == InitNaming /\ [][NextMain]_vars

\* C2: a test class named by the convention for a symbol, Test<CamelCase>
\* or Test_<name>, is filed under the symbol's name, and the coverage
\* validation accepts the symbol.
C2_ConventionMatchesSymbol ==
    (/\ test_class_name \in ConventionNames(symbol_name)
     /\ _is_test_class(unittest_file.body[1])) =>
        /\ pc = "tests_analyzed" => DOMAIN test_classes = {symbol_name}
        /\ coverage # "ValueError"

\* ------------------------------------------------------------- main runs
\* The modules of the runs: the symbols a and b, as functions or classes,
\* and a module that does not parse.
FunctionFiles ==
    {FunctionFile(FALSE, <<>>, <<>>),
     FunctionFile(TRUE, <<<<"a">>>>, <<>>),
     FunctionFile(TRUE, <<<<"a">>, <<"b">>>>, <<>>),
     FunctionFile(TRUE, <<<<"a">>>>, <<<<"b">>>>),
     FunctionFile(TRUE, <<>>, <<<<"b">>>>),
     FunctionFile(TRUE, <<<<"a">>>>, <<<<"a">>>>)}

\* The classes of the test files of the runs.
TestClassNodes ==
    {ast_ClassDef(name, bases, body) :
        name \in {<<"T", "e", "s", "t", "A">>, <<"T", "e", "s", "t", "_", "a">>, <<"T", "e", "s", "t", "B">>, <<"T", "e", "s", "t">>, <<"H", "e", "l", "p", "e", "r">>},
        bases \in {TestCaseBase, ObjectBase},
        body \in {ExampleBody, DeepBody}}

\* ... and the test files: up to MaxTestClasses classes, or no parse.
UnittestFiles ==
    {UnittestFile(FALSE, <<>>)}
        \cup {UnittestFile(TRUE, body) : body \in SeqsUpTo(TestClassNodes, MaxTestClasses)}

InitMain ==
    /\ function_file \in FunctionFiles
    /\ unittest_file \in UnittestFiles
    /\ MainStart

SpecMain == InitMain /\ [][NextMain]_vars

\* ------------------------------------------------- properties of main
RECURSIVE split(_, _)
\* The pieces of text between the occurrences of sep.
split(text, sep) ==
    IF occurrences(text, sep) = {} THEN <<text>>
    ELSE LET i == CHOOSE i \in occurrences(text, sep) :
                      \A j \in occurrences(text, sep) : i <= j
         IN  <<SubSeq(text, 1, i - 1)>>
                 \o split(SubSeq(text, i + Len(sep), Len(text)), sep)

\* The names a coverage message lists: what stands between its head and the
\* end of its first line, split at the commas.
listed(msg) ==
    LET end == CHOOSE i \in 1..Len(msg) :
                   msg[i] = "\n" /\ \A j \in 1..(i - 1) : msg[j] # "\n"
    IN  Range(split(SubSeq(msg, Len(MissingHead) + 1, end - 1), <<",", " ">>))

\* The symbols of the module that are not keys of test_classes.
Untested ==
    {name \in Range(function_file.functions \o function_file.classes) :
        name \notin DOMAIN test_classes}

\* main is past the analysis of the test file.
TestsAnalyzed == pc \in {"tests_analyzed", "validated", "done"} \/ coverage # "none"

\* C11: validate_test_coverage raises an error whose message names exactly
\* the symbols, functions and classes, that are not keys of the test class
\* mapping, and it returns True, without raising, when every symbol has a
\* test class.
C11_CoverageMessageNamesMissing ==
    /\ coverage = "ValueError" =>
        /\ startswith(error_msg, MissingHead)
        /\ listed(error_msg) = Untested
        /\ Untested # {}
    /\ coverage = "True" => Untested = {}
    /\ pc \in {"validated", "done"} => coverage = "True"
    /\ (TestsAnalyzed /\ Untested = {}) => coverage # "ValueError"

\* The validation raised for a module of two symbols of which one has a
\* test class.
C11_Witness ==
    /\ coverage = "ValueError"
    /\ Len(function_names \o class_names) = 2
    /\ \E name \in Range(function_names \o class_names) : name \in DOMAIN test_classes
    /\ listed(error_msg) = {<<"b">>}

\* The symbols whose test cases could not be transformed.
Untransformable ==
    {name \in Range(function_file.functions \o function_file.classes) :
        name \in DOMAIN test_classes /\ any_raise(testcases(test_classes[name]))}

\* C12: the output document is written only after the parse of the module,
\* the parse of the test file, the coverage validation and the
\* transformation of every symbol have succeeded; a run that fails returns
\* 1 and writes no document, and no question is generated before the
\* coverage validation has passed.
C12_NoPartialOutput ==
    /\ output.written =>
        /\ function_file.parses
        /\ unittest_file.parses
        /\ coverage = "True"
        /\ Untransformable = {}
        /\ Len(output.questions) = Len(function_names) + Len(class_names)
        /\ exit_status = 0
    /\ pc = "failed" => exit_status = 1 /\ ~output.written
    /\ exit_status = 1 => ~output.written
    /\ exit_status = 0 => output.written
    /\ questions # <<>> => coverage = "True"
    /\ (\/ ~function_file.parses
        \/ ~unittest_file.parses
        \/ TestsAnalyzed /\ (Untested # {} \/ Untransformable # {})) =>
            exit_status # 0

\* A run that failed in the transformation of its second symbol, after the
\* question of the first was built.
C12_Witness ==
    /\ pc = "failed"
    /\ Len(questions) = 1
    /\ position = 2
    /\ ~output.written

\* The classes of the test file that are filed under a key.
FiledUnder(key) ==
    {i \in 1..Len(unittest_file.body) :
        /\ _is_test_class(unittest_file.body[i])
        /\ _extract_tested_function_name(unittest_file.body[i].name) = key}

\* C16: the mapping holds one test class per derived name; of two test
\* classes with the same derived name it holds the one declared later in
\* the file, and the earlier one is dropped without an error.
C16_LaterTestClassReplaces ==
    TestsAnalyzed =>
        \A key \in DOMAIN test_classes :
            /\ FiledUnder(key) # {}
            /\ \E i \in FiledUnder(key) :
                /\ \A j \in FiledUnder(key) : j <= i
                /\ test_classes[key] = _extract_test_class(unittest_file.body[i])

\* Two test classes for the symbol a, the later one in the mapping, and the
\* run past the analysis without an error.
C16_Witness ==
    /\ pc = "tests_analyzed"
    /\ Len(unittest_file.body) = 2
    /\ unittest_file.body[1].name = <<"T", "e", "s", "t", "A">>
    /\ unittest_file.body[2].name = <<"T", "e", "s", "t", "_", "a">>
    /\ FiledUnder(<<"a">>) = {1, 2}
    /\ test_classes[<<"a">>].name = <<"T", "e", "s", "t", "_", "a">>

\* --------------------------------------- properties of the naming transform
\* A run of two or more uppercase letters followed by lowercase letters: an
\* acronym and a capitalised word that starts at the last letter of the run.
UpperRun(word) == {i \in 1..Len(word) : \A j \in 1..i : IsUpper(word[j])}
IsAcronymThenWord(word) ==
    /\ Cardinality(UpperRun(word)) >= 2
    /\ Cardinality(UpperRun(word)) < Len(word)
    /\ \A i \in 1..Len(word) : i \notin UpperRun(word) => IsLower(word[i])

\* The word split once, before the last uppercase letter of its run.
SplitOnce(word) ==
    LET k == Cardinality(UpperRun(word))
    IN  lower(SubSeq(word, 1, k - 1)) \o <<"_">> \o lower(SubSeq(word, k, Len(word)))

\* The name of the test class of the file without its prefix Test or Test_.
TestedWord ==
    IF startswith(test_class_name, <<"T", "e", "s", "t", "_">>)
    THEN SubSeq(test_class_name, 6, Len(test_class_name))
    ELSE IF startswith(test_class_name, <<"T", "e", "s", "t">>)
         THEN SubSeq(test_class_name, 5, Len(test_class_name))
         ELSE <<>>

\* The key under which the test class of the file is filed is key.
FiledAs(key) == DOMAIN test_classes = {key}

\* C15: the naming transform maps TestFeetToMeter to feet_to_meter,
\* Test_Somme to somme and TestHTTPRequest to http_request; a run of
\* uppercase letters followed by a capitalised word is split once, before
\* the last uppercase letter of the run.
C15_NamingExamples ==
    (TestsAnalyzed /\ _is_test_class(unittest_file.body[1])) =>
        /\ test_class_name = <<"T", "e", "s", "t", "F", "e", "e", "t", "T", "o", "M", "e", "t", "e", "r">> => FiledAs(<<"f", "e", "e", "t", "_", "t", "o", "_", "m", "e", "t", "e", "r">>)
        /\ test_class_name = <<"T", "e", "s", "t", "_", "S", "o", "m", "m", "e">> => FiledAs(<<"s", "o", "m", "m", "e">>)
        /\ test_class_name = <<"T", "e", "s", "t", "H", "T", "T", "P", "R", "e", "q", "u", "e", "s", "t">> => FiledAs(<<"h", "t", "t", "p", "_", "r", "e", "q", "u", "e", "s", "t">>)
        /\ IsAcronymThenWord(TestedWord) => FiledAs(SplitOnce(TestedWord))

\* The documented name with an acronym, analysed.
C15_Witness ==
    /\ pc = "tests_analyzed"
    /\ test_class_name = <<"T", "e", "s", "t", "H", "T", "T", "P", "R", "e", "q", "u", "e", "s", "t">>
    /\ FiledAs(<<"h", "t", "t", "p", "_", "r", "e", "q", "u", "e", "s", "t">>)

\* The case-split in two passes, each read at the positions of its input.
\* First pass: a separator before an uppercase letter that is followed by a
\* lowercase letter and preceded by another letter.
RECURSIVE FirstPass(_, _)
FirstPass(s, i) ==
    IF i > Len(s) THEN <<>>
    ELSE (IF /\ IsUpper(s[i])
             /\ i < Len(s) /\ IsLower(s[i + 1])
             /\ i > 1 /\ (IsUpper(s[i - 1]) \/ IsLower(s[i - 1]))
          THEN <<"_">> ELSE <<>>)
         \o <<s[i]>> \o FirstPass(s, i + 1)

\* Second pass: a separator before an uppercase letter immediately preceded
\* by a lowercase letter or a digit.
RECURSIVE SecondPass(_, _)
SecondPass(s, i) ==
    IF i > Len(s) THEN <<>>
    ELSE (IF IsUpper(s[i]) /\ i > 1 /\ (IsLower(s[i - 1]) \/ IsDigit(s[i - 1]))
          THEN <<"_">> ELSE <<>>)
         \o <<s[i]>> \o SecondPass(s, i + 1)

\* C25: the first pass of the case-split inserts a separator before an
\* uppercase letter only when it is followed by lowercase letters and
\* preceded by another letter, the second before an uppercase letter
\* preceded by a lowercase letter or digit; so a separator of the name is
\* never doubled.
C25_SeparatorNeverDoubled ==
    (TestsAnalyzed /\ _is_test_class(unittest_file.body[1]) /\ TestedWord # <<>>) =>
        FiledAs(lower(SecondPass(FirstPass(TestedWord, 1), 1)))

\* ----------------------------------------------------- test case runs
\* What the body of a test class is made of.
BodyItems ==
    {ExampleSetUp, DeepSetUp, ExampleTest, SecondTest, DeepTest, HelperMethod,
     ClassAttribute}

\* main for the symbol a and the test class TestA, with every body of up to
\* MaxBodyLen items; and runs that end before the questions.
InitTestcases ==
    /\ \/ /\ function_file \in {FunctionFile(TRUE, <<<<"a">>>>, <<>>),
                                FunctionFile(TRUE, <<>>, <<<<"a">>>>)}
          /\ \E body \in SeqsUpTo(BodyItems, MaxBodyLen) :
                unittest_file =
                    UnittestFile(TRUE, <<ast_ClassDef(<<"T", "e", "s", "t", "A">>, TestCaseBase, body)>>)
       \/ /\ function_file \in {FunctionFile(FALSE, <<>>, <<>>),
                                FunctionFile(TRUE, <<<<"b">>>>, <<>>)}
          /\ unittest_file \in
                 {UnittestFile(parses, <<ast_ClassDef(<<"T", "e", "s", "t", "A">>, TestCaseBase, ExampleBody)>>) :
                     parses \in BOOLEAN}
    /\ MainStart

SpecTestcases == InitTestcases /\ [][NextMain]_vars

\* ------------------------------------------- properties of the test cases
\* The test class of the file, and its test methods as the file declares
\* them.
TestClassNode == unittest_file.body[1]
DeclaredTests ==
    SelectSeq(TestClassNode.body,
              LAMBDA item : item.node = "FunctionDef" /\ startswith(item.name, <<"t", "e", "s", "t", "_">>))

\* The expected output of a test method, which no setUp changes.
ExpectedOf(test_func) == transform_test_method(test_func, NoSetUp).expected

\* C17: the test cases of a question are one per test method of the test
\* class, in the order of declaration; setUp is never a test case; and when
\* there is a test method, exactly the first test case carries
\* useasexample = 1 and all others carry 0.
C17_FirstTestCaseIsExample ==
    \A q \in 1..Len(questions) :
        LET cases == questions[q].testcases
        IN  /\ Len(cases) = Len(DeclaredTests)
            /\ \A i \in 1..Len(cases) :
                /\ cases[i].expected = ExpectedOf(DeclaredTests[i])
                /\ cases[i].useasexample = IF i = 1 THEN 1 ELSE 0

\* The question of a test class that declares setUp and then two tests.
C17_Witness ==
    /\ Len(questions) = 1
    /\ TestClassNode.body = <<ExampleSetUp, SecondTest, ExampleTest>>
    /\ Len(questions[1].testcases) = 2
    /\ questions[1].testcases[1].expected = TrueText
    /\ questions[1].testcases[2].useasexample = 0

\* The statements of the setUp of the test class, as the file declares it.
SetUpStatements ==
    LET setups == SelectSeq(TestClassNode.body,
                            LAMBDA item : item.node = "FunctionDef" /\ item.name = <<"s", "e", "t", "U", "p">>)
    IN  IF setups = <<>> THEN <<>> ELSE setups[Len(setups)].body

\* The code of a test method without any setUp.
CodeOf(test_func) == transform_test_method(test_func, NoSetUp).testcode

\* C13: once the transformation of a target has begun, an internal error,
\* a setUp that cannot be analysed included, aborts the target's question:
\* no test case is emitted with the statements of the setUp missing.
C13_SetUpNeverDropped ==
    \A q \in 1..Len(questions) :
        \A i \in 1..Len(questions[q].testcases) :
            SetUpStatements # <<>> =>
                Len(questions[q].testcases[i].testcode) > Len(CodeOf(DeclaredTests[i]))

\* --------------------------------------------- properties of the merging
\* The names a symbol of the module calls.
Calls(x) ==
    IF x \in DOMAIN module_info.functions THEN module_info.functions[x]
    ELSE IF x \in DOMAIN module_info.classes THEN module_info.classes[x]
    ELSE {}

RECURSIVE Closure(_)
\* The functions reachable from the functions S through function calls.
Closure(S) ==
    LET more == S \cup UNION {Calls(f) \cap all_functions : f \in S}
    IN  IF more = S THEN S ELSE Closure(more)

\* The functions reachable from symbol x through chains of function calls.
ReachableFunctions(x) == Closure(Calls(x) \cap all_functions)

NoDuplicates(seq) == \A i, j \in 1..Len(seq) : seq[i] = seq[j] => i = j

\* The support list of the last question: classes + functions.
Support == Range(question.class_deps) \cup Range(question.dependencies)

\* C1: the support code is self-contained: every function or class of the
\* module called by the target or by a symbol of its support list is the
\* target or is in the support list.
C1_DependencyClosure ==
    pc = "question" =>
        \A x \in {question.name} \cup Support :
            Calls(x) \subseteq {question.name} \cup Support

\* C3: the merged function support list names no function twice, so the
\* template holds no function's source twice.
C3_NoDuplicateFunction ==
    pc = "question" =>
        /\ NoDuplicates(question.dependencies)
        /\ NoDuplicates(question.template)

\* C4: every function called in the body of a class of the class support
\* list is in the function support list.
C4_ClassFunctionsIncluded ==
    pc = "question" =>
        \A class_dep \in Range(question.class_deps) :
            Calls(class_dep) \cap all_functions \subseteq Range(question.dependencies)

\* C7: a function called by setUp and not otherwise reachable from the
\* target is in the function support list with all the functions it reaches.
C7_SetupFunctionsIncluded ==
    pc = "question" =>
        \A setup_func \in (setup_code \cap all_functions)
                          \ (ReachableFunctions(question.name) \cup {question.name}) :
            ({setup_func} \cup ReachableFunctions(setup_func)) \ {question.name}
                \subseteq Range(question.dependencies)

\* C8: every class called by the target, by a function of the function
\* support list or by setUp is in the class support list (the target class
\* itself excepted).
C8_ClassesIncluded ==
    pc = "question" =>
        \A x \in {question.name} \cup Range(question.dependencies) \cup {SetUp} :
            LET called == IF x = SetUp THEN setup_code ELSE Calls(x)
            IN  (called \cap all_classes) \ {question.name}
                    \subseteq Range(question.class_deps)

\* -------------------------------------------- properties of the resolver
\* The step-by-step resolver returns what the function form computes.
ResolverAgrees ==
    pc = "returned" => result = get_function_dependencies_ordered(target, all_functions)

\* No function that the target reaches, nor the target, is on a call cycle.
AcyclicFrom(x) ==
    \A f \in {x} \cup ReachableFunctions(x) : f \notin ReachableFunctions(f)

\* C5: when the call graph of the target is acyclic, no function of the
\* returned list calls a function that comes later in it.
C5_CalleesPrecedeCallers ==
    (pc = "returned" /\ AcyclicFrom(target)) =>
        \A i, j \in 1..Len(result) : i < j => result[j] \notin Calls(result[i])

C5_Witness ==
    /\ pc = "returned"
    /\ AcyclicFrom(target)
    /\ Len(result) >= 2
    /\ result[1] \in Calls(result[2])

\* C6: the returned list holds, each once, exactly the functions reachable
\* from the target through function calls, and never the target.
C6_ExactlyReachable ==
    pc = "returned" =>
        /\ NoDuplicates(result)
        /\ Range(result) = ReachableFunctions(target) \ {target}

C6_Witness ==
    /\ pc = "returned"
    /\ target \in ReachableFunctions(target)
    /\ Len(result) >= 2

ProcessClassAgrees ==
    pc = "class_returned" => question = process_class(target)

Running == pc \in {"running", "class_running"}

\* The next statement of the running call.
StepOfCall ==
    \/ VisitSkip \/ VisitEnter \/ VisitReturn \/ Return
    \/ ResolveSkip \/ ResolveEnter \/ ResolveReturn \/ ClassReturn

\* Call expressions of the module: what a traversal can walk through.
SourceSize ==
    LET RECURSIVE Sum(_)
        Sum(S) == IF S = {} THEN 0
                  ELSE LET x == CHOOSE x \in S : TRUE
                       IN  Cardinality(Calls(x)) + Sum(S \ {x})
    IN  Sum(Names)

\* C9: in the resolver and in resolve_function_deps every name is expanded
\* at most once, cycles or not; so the recursion is never deeper than the
\* number of functions, a call takes a number of steps bounded by the size
\* of the source, and until it has returned it can take its next step.
C9_ExpandedAtMostOnce ==
    /\ \A n \in Names : expanded[n] <= 1
    /\ Len(stack) <= 1 + Cardinality(all_functions)
    /\ steps <= SourceSize + Cardinality(all_functions) + 1
    /\ Running => ENABLED StepOfCall

C9_Witness ==
    /\ pc = "class_returned"
    /\ \E f \in Range(question.dependencies) :
           /\ f \in ReachableFunctions(f)
           /\ target \in Calls(f)

\* --------------------------------- the order of the blocks of the template
\* A module may define a class under the name of one of its functions:
\* FunctionAnalyzer.analyze enters the function in its table of functions and
\* the class in its table of classes.  A call of that name is then a call
\* expression of both definitions.
Redefinitions == {{}, {<<SetOrderOfClasses[1], SetOrderOfFunctions[1]>>}}

called_by_name(source, redefinitions) ==
    \A r \in redefinitions : \A caller \in Names \cup {SetUp} :
        <<caller, r[1]>> \in source <=> <<caller, r[2]>> \in source

InitTemplate ==
    /\ redefined \in Redefinitions
    /\ tree = <<>>
    /\ tables = NoTables
    /\ \E source \in {s \in Sources : called_by_name(s, redefined)} :
        /\ module_info = analyze(source)
        /\ setup_code = _find_dependencies(source, SetUp)
    /\ hash_order \in HashOrders
    /\ pc = "analyzed"
    /\ question = NoQuestion
    /\ ResolverIdle
    /\ NamingIdle

SpecTemplate == InitTemplate /\ [][Next]_vars

\* C14: in the template of every target, every block that is the source code
\* of a class comes before every block that is the source code of a function.
C14_ClassesBeforeFunctions ==
    \A i, j \in DOMAIN question.template :
        (question.template[i] \in FunctionNames
            /\ question.template[j] \in ClassNames) => j < i

\* ------------------------------------------- runs on a single statement
\* The expressions the assertions of the test file are called with.
Arguments ==
    {ast_Call(ast_Name(<<"d", "o", "u", "b", "l", "e">>), <<ast_Num(<<"5">>)>>),
     ast_Num(<<"1", "0">>),
     ast_Name(<<"x">>),
     ast_Attribute(Self, <<"x">>),
     ast_Attribute(ast_Name(<<"m", "y", "s", "e", "l", "f">>), <<"x">>),
     ast_Str(<<"s", "e", "l", "f", ".", "x">>),
     ast_List(<<ast_Num(<<"1">>), ast_Num(<<"2">>), ast_Num(<<"3">>)>>),
     ast_Dict(<<ast_Str(<<"k">>)>>, <<ast_List(<<ast_Attribute(Self, <<"v">>)>>)>>),
     ast_BoolOp(ast_Name(<<"a">>), ast_Name(<<"b">>))}

\* self.<method>(...) for the four assertions the transformer rewrites.
AssertionStatements ==
    {assert_call(method, args) :
        method \in {assertEqual, assertTrue, assertFalse, assertIn},
        args \in SeqsUpTo(Arguments, MaxArgs)}

\* f(1), self.f(1), g(2), x = 1 and: for x in [1]: f(x)
CallF == ast_Expr(ast_Call(ast_Name(<<"f">>), <<ast_Num(<<"1">>)>>))
CallSelfF == ast_Expr(ast_Call(ast_Attribute(Self, <<"f">>), <<ast_Num(<<"1">>)>>))
CallG == ast_Expr(ast_Call(ast_Name(<<"g">>), <<ast_Num(<<"2">>)>>))
AssignX == ast_Assign(ast_Name(<<"x">>), ast_Num(<<"1">>))
ForLoop ==
    ast_For(ast_Name(<<"x">>), ast_List(<<ast_Num(<<"1">>)>>),
            <<ast_Expr(ast_Call(ast_Name(<<"f">>), <<ast_Name(<<"x">>)>>))>>)

\* with self.assertRaises(E): <body>
RaisesStatements ==
    {ast_With(<<ast_Call(ast_Attribute(Self, assertRaises), <<exception_type>>)>>, body) :
        exception_type \in {ast_Name(<<"V", "a", "l", "u", "e", "E", "r", "r", "o", "r">>), ast_Name(<<"K", "e", "y", "E", "r", "r", "o", "r">>)},
        body \in {<<CallF>>, <<CallSelfF, CallG>>, <<AssignX, CallF, CallG>>,
                  <<ForLoop>>, <<AssignX, ForLoop>>}}

\* def test_a(self): <one statement>
TestMethods ==
    {ast_FunctionDef(<<"t", "e", "s", "t", "_", "a">>, <<stmt>>) :
        stmt \in AssertionStatements \cup RaisesStatements}
    \cup {DeepTest}

\* main for the symbol a and the test class TestA that holds one test
\* method of one statement; and runs that end before the questions.
InitTransform ==
    /\ \/ /\ function_file \in {FunctionFile(TRUE, <<<<"a">>>>, <<>>),
                                FunctionFile(TRUE, <<>>, <<<<"a">>>>)}
          /\ \E test \in TestMethods :
                unittest_file =
                    UnittestFile(TRUE, <<ast_ClassDef(<<"T", "e", "s", "t", "A">>, TestCaseBase, <<test>>)>>)
       \/ /\ function_file \in {FunctionFile(FALSE, <<>>, <<>>),
                                FunctionFile(TRUE, <<<<"b">>>>, <<>>)}
          /\ unittest_file \in
                 {UnittestFile(parses, <<ast_ClassDef(<<"T", "e", "s", "t", "A">>, TestCaseBase, ExampleBody)>>) :
                     parses \in BOOLEAN}
    /\ MainStart

SpecTransform == InitTransform /\ [][NextMain]_vars

\* ------------------------------------- properties of the rewritten code
\* The statement of the test method of the file.
TestStatement == TestClassNode.body[1].body[1]

\* The statement calls the assertion method with at least n arguments.
Asserts(method, n) ==
    /\ TestStatement.node = "Expr"
    /\ TestStatement.value.node = "Call"
    /\ TestStatement.value.func = ast_Attribute(Self, method)
    /\ Len(TestStatement.value.args) >= n

\* The n-th argument of the assertion.
Argument(n) == TestStatement.value.args[n]

RECURSIVE unqualified(_)
\* An expression with the self qualifier stripped: self.<attr> is the name
\* <attr>, and nothing else changes.
unqualified(e) ==
    IF e.node = "Attribute"
    THEN IF e.value = Self THEN ast_Name(e.attr)
         ELSE ast_Attribute(unqualified(e.value), e.attr)
    ELSE IF e.node = "Call"
         THEN ast_Call(unqualified(e.func),
                       [i \in 1..Len(e.args) |-> unqualified(e.args[i])])
    ELSE IF e.node = "List"
         THEN ast_List([i \in 1..Len(e.elts) |-> unqualified(e.elts[i])])
    ELSE IF e.node = "Dict"
         THEN ast_Dict([i \in 1..Len(e.keys) |-> unqualified(e.keys[i])],
                       [i \in 1..Len(e.values) |-> unqualified(e.values[i])])
    ELSE IF e.node \in {"BinOp", "BoolOp"}
         THEN [e EXCEPT !.left = unqualified(e.left), !.right = unqualified(e.right)]
    ELSE e

\* The qualifier-stripped source text of an expression.
SourceText(e) == unparse_expr(unqualified(e))

RECURSIVE ValueText(_)
\* The text of an expected value: a constant as its value text, a list or
\* a dict element by element inside its brackets or braces, any other
\* expression as its qualifier-stripped source text.
ValueText(e) ==
    IF e.node = "Constant" THEN e.value
    ELSE IF e.node \in {"List", "Dict"}
         THEN display(e, [i \in 1..Len(children(e)) |-> ValueText(children(e)[i])])
    ELSE SourceText(e)

\* The test case of the question: print(<code>) with the expected text.
Prints(q, code, expected) ==
    /\ Len(questions[q].testcases) = 1
    /\ questions[q].testcases[1].testcode = PrintOpen \o code \o <<")">>
    /\ questions[q].testcases[1].expected = expected

\* C18: a top-level equality assertion with at least two arguments is
\* rewritten to print(<argument 1 with the self qualifier stripped>) and
\* contributes as expected value the text of argument 2.
C18_EqualityPrintsFirstArgument ==
    \A q \in 1..Len(questions) :
        Asserts(assertEqual, 2) =>
            Prints(q, SourceText(Argument(1)), ValueText(Argument(2)))

\* The source text of an operand of the comparison "in": an operand that
\* binds less tightly is written between parentheses.
Operand(e) ==
    IF e.node = "BoolOp" THEN parenthesised(SourceText(e)) ELSE SourceText(e)

\* C19: assertTrue(e) is rewritten to print(e) with expected True,
\* assertFalse(e) to print(e) with expected False, and assertIn(x, c) to
\* print(x in c) with expected True, the self qualifier stripped.
C19_BooleanPrintsExpression ==
    \A q \in 1..Len(questions) :
        /\ Asserts(assertTrue, 1) => Prints(q, SourceText(Argument(1)), TrueText)
        /\ Asserts(assertFalse, 1) => Prints(q, SourceText(Argument(1)), FalseText)
        /\ Asserts(assertIn, 2) =>
               Prints(q, Operand(Argument(1)) \o <<" ", "i", "n", " ">> \o Operand(Argument(2)),
                      TrueText)

\* The statement is: with self.assertRaises(E): <body>
ExpectsRaise ==
    /\ TestStatement.node = "With"
    /\ Len(TestStatement.items) = 1
    /\ TestStatement.items[1].node = "Call"
    /\ TestStatement.items[1].func = ast_Attribute(Self, assertRaises)
    /\ Len(TestStatement.items[1].args) >= 1

\* The guarded block: the statements of the body in their order, one level
\* deep, then the print of KO, and the print of OK in the handler of the
\* exception type.  The qualifier of the statements is stripped as the code
\* strips it.
GuardedBlock(exception_type, body) ==
    <<"t", "r", "y", ":">> \o strip_self(unparse_body(body, 1))
        \o <<"\n", " ", " ", " ", " ", "p", "r", "i", "n", "t", "(", "\"", "K", "O", "\"", ")", "\n", "e", "x", "c", "e", "p", "t", " ">> \o unparse_expr(exception_type)
        \o <<":", "\n", " ", " ", " ", " ", "p", "r", "i", "n", "t", "(", "\"", "O", "K", "\"", ")">>

\* C20: a with-block whose context expression is assertRaises(E) is
\* rewritten to a guarded block that runs the body statements in their
\* order, prints KO as the last step of the guarded body and prints OK in
\* the handler for E; the expected value it contributes is OK.
C20_RaisesIsGuardedBlock ==
    \A q \in 1..Len(questions) :
        ExpectsRaise =>
            /\ Len(questions[q].testcases) = 1
            /\ questions[q].testcases[1].testcode =
                   GuardedBlock(TestStatement.items[1].args[1], TestStatement.body)
            /\ questions[q].testcases[1].expected = OkText

\* ------------------------------------------------- FunctionAnalyzer.analyze
\* The syntax tree of a module, as far as analyze reads it: its function and
\* class definitions in the order of the source text.  tree[i] is the
\* definition on line i: its kind, its name, and the line of the definition
\* whose body holds it (0 for the module itself).
Definition(kind, name, parent) == [kind |-> kind, name |-> name, parent |-> parent]

\* ast.iter_child_nodes: the definitions held by the body of the one on line.
children_of(t, line) ==
    SelectSeq([i \in 1..Len(t) |-> i], LAMBDA i : t[i].parent = line)

RECURSIVE walk(_, _)
\* ast.walk: the nodes in the order it yields them; todo is its deque.
walk(t, todo) ==
    IF todo = <<>> THEN <<>>
    ELSE <<Head(todo)>> \o walk(t, Tail(todo) \o children_of(t, Head(todo)))

\* _is_module_level, refusing only the functions held directly by a class.
_is_module_level_direct(t, node) ==
    ~(t[node].parent # 0 /\ t[t[node].parent].kind = "class")

\* FunctionAnalyzer._is_module_level: node is not met on the walk of any
\* class definition of the tree.
_is_module_level(t, node) ==
    \A parent \in Range(walk(t, <<0>>)) :
        (parent # 0 /\ t[parent].kind = "class") =>
            node \notin Range(walk(t, <<parent>>))

\* One iteration of the loop of analyze: found is the pair of its
\* dictionaries functions and classes.
analyze_node(t, node, found) ==
    IF node = 0 THEN found
    ELSE IF t[node].kind = "def"
         THEN IF _is_module_level(t, node)
              THEN [found EXCEPT !.functions = dict_set(@, t[node].name, node)]
              ELSE found
    ELSE [found EXCEPT !.classes = dict_set(@, t[node].name, node)]

RECURSIVE analyze_nodes(_, _, _)
\* The loop of analyze over the nodes that ast.walk yields.
analyze_nodes(t, nodes, found) ==
    IF nodes = <<>> THEN found
    ELSE analyze_nodes(t, Tail(nodes), analyze_node(t, Head(nodes), found))

\* FunctionAnalyzer.analyze: the two tables, name -> definition.
FunctionAnalyzer_analyze(t) == analyze_nodes(t, walk(t, <<0>>), NoTables)

\* The names of the definitions of the modules analysed.
TreeNames == {<<"f">>, <<"g">>}

RECURSIVE enclosing(_, _)
\* The lines of the definitions around the one on line, the module included.
enclosing(t, line) ==
    IF line = 0 THEN {} ELSE {t[line].parent} \cup enclosing(t, t[line].parent)

\* Where the next line of the source text can be: in the body of the
\* definition of the last line, or of one around it, or in the module.
open_blocks(t) == IF t = <<>> THEN {0} ELSE {Len(t)} \cup enclosing(t, Len(t))

RECURSIVE TreesUpTo(_)
\* The modules of up to n definitions.
TreesUpTo(n) ==
    IF n = 0 THEN {<<>>}
    ELSE LET smaller == TreesUpTo(n - 1)
         IN  smaller \cup
             UNION {{Append(t, Definition(kind, name, parent)) :
                        kind \in {"def", "class"}, name \in TreeNames,
                        parent \in open_blocks(t)} : t \in smaller}

\* analyze_python_file before FunctionAnalyzer.analyze: the module is parsed.
InitAnalyze ==
    /\ tree \in TreesUpTo(MaxNodes)
    /\ tables = NoTables
    /\ module_info = analyze({})
    /\ setup_code = {}
    /\ hash_order = SetOrderOfFunctions \o SetOrderOfClasses
    /\ redefined = {}
    /\ pc = "parsed"
    /\ question = NoQuestion
    /\ ResolverIdle
    /\ NamingIdle

\* analyze_python_file: return analyzer.analyze()
AnalyzeModule ==
    /\ pc = "parsed"
    /\ tables' = FunctionAnalyzer_analyze(tree)
    /\ pc' = "tables"
    /\ UNCHANGED <<module_info, setup_code, hash_order, redefined, tree, question,
                   resolver_vars, naming_vars>>

SpecAnalyze == InitAnalyze /\ [][AnalyzeModule]_vars

\* ------------------------------------------------ properties of the tables
\* C21: the table of functions and the table of classes built from one
\* module are disjoint: no name is a key of both.
C21_TablesDisjoint ==
    DOMAIN tables.functions \cap DOMAIN tables.classes = {}

\* The function definition on line i has no enclosing class definition.
OutsideClasses(i) ==
    /\ tree[i].kind = "def"
    /\ \A line \in enclosing(tree, i) \ {0} : tree[line].kind # "class"

\* The definitions that are collected under the name: the classes, or the
\* functions outside of every class.
Collected(kind, name) ==
    {i \in 1..Len(tree) :
        /\ tree[i].name = name
        /\ IF kind = "def" THEN OutsideClasses(i) ELSE tree[i].kind = "class"}

\* The definition of the set that occurs last in the source text.
Latest(lines) == CHOOSE i \in lines : \A j \in lines : j <= i

\* C22: when two function definitions, or two class definitions, collected
\* from the module share a name, the entry of the table for that name is the
\* one that occurs later in the source text, whatever their nesting depths.
C22_LaterDefinitionWins ==
    pc = "tables" =>
        /\ \A name \in DOMAIN tables.functions :
               tables.functions[name] = Latest(Collected("def", name))
        /\ \A name \in DOMAIN tables.classes :
               tables.classes[name] = Latest(Collected("class", name))

\* The definition on line i is the entry of the table for its name.
InTable(table, i) == tree[i].name \in DOMAIN table /\ table[tree[i].name] = i

C23_ClassesInDiscoveryOrder ==
    (pc = "question" /\ question.kind = "function") =>
        \A i, j \in DOMAIN question.class_deps :
            (i < j /\ question.class_deps[j] \in func_class_deps(question.name))
                => question.class_deps[i] \in func_class_deps(question.name)

\* C29: the target function never appears in its own function support
\* list, also when setUp, or a function or class found during the merging,
\* calls the target.
C29_TargetNotInOwnSupport ==
    (pc = "question" /\ question.kind = "function") =>
        question.name \notin Range(question.dependencies)

\* --------------------------------------- runs on a method of statements
\* Assertions with the arguments they require.
ProbeEqual ==
    assert_call(assertEqual,
                <<ast_Call(ast_Name(<<"d", "o", "u", "b", "l", "e">>), <<ast_Num(<<"5">>)>>), ast_Num(<<"1", "0">>)>>)
ProbeTrue == assert_call(assertTrue, <<ast_Attribute(Self, <<"o", "k">>)>>)
ProbeRaises ==
    ast_With(<<ast_Call(ast_Attribute(Self, assertRaises), <<ast_Name(<<"V", "a", "l", "u", "e", "E", "r", "r", "o", "r">>)>>)>>,
             <<CallF>>)

\* Assertions with fewer arguments than they require.
ShortEqual == assert_call(assertEqual, <<ast_Attribute(Self, <<"x">>)>>)
ShortTrue == assert_call(assertTrue, <<>>)
ShortIn == assert_call(assertIn, <<ast_Name(<<"x">>)>>)
ShortRaises ==
    ast_With(<<ast_Call(ast_Attribute(Self, assertRaises), <<>>)>>, <<CallSelfF>>)

\* Statements that are no assertion of the transformer: self.v = f(1), a
\* loop over an assertion, a with-block without assertRaises, a call of
\* another assertion, myself.x = 1, and a string constant.
AssignAttribute ==
    ast_Assign(ast_Attribute(Self, <<"v">>), ast_Call(ast_Name(<<"f">>), <<ast_Num(<<"1">>)>>))
LoopOverAssertion ==
    ast_For(ast_Name(<<"i">>), ast_Attribute(Self, <<"i", "t", "e", "m", "s">>),
            <<assert_call(assertEqual,
                          <<ast_Call(ast_Name(<<"f">>), <<ast_Name(<<"i">>)>>), ast_Num(<<"1">>)>>)>>)
WithLock == ast_With(<<ast_Attribute(Self, <<"l", "o", "c", "k">>)>>, <<CallSelfF>>)
UnmatchedCall == assert_call(<<"a", "s", "s", "e", "r", "t", "A", "l", "m", "o", "s", "t", "E", "q", "u", "a", "l">>, <<ast_Name(<<"x">>), ast_Num(<<"1">>)>>)
AssignMyself == ast_Assign(ast_Attribute(ast_Name(<<"m", "y", "s", "e", "l", "f">>), <<"x">>), ast_Num(<<"1">>))
StringConstant == ast_Expr(ast_Str(<<"d", "o", "c">>))
NumberConstant == ast_Expr(ast_Num(<<"4", "2">>))

\* Assertions on an expression nested too deep for ast.unparse.
DeepProbe == assert_call(assertEqual, <<ast_Deep, ast_Num(<<"1">>)>>)
ShortDeep == assert_call(assertEqual, <<ast_Deep>>)

MethodItems ==
    {ProbeEqual, ProbeTrue, ProbeRaises, ShortEqual, ShortTrue, ShortIn, ShortRaises,
     AssignAttribute, LoopOverAssertion, WithLock, CallSelfF, UnmatchedCall,
     AssignMyself, StringConstant, NumberConstant, DeepProbe,
     ShortDeep}

\* main for the symbol a and the test class TestA that holds one test
\* method of up to MaxStatements statements; and runs that end before the
\* questions.
InitProbes ==
    /\ \/ /\ function_file \in {FunctionFile(TRUE, <<<<"a">>>>, <<>>),
                                FunctionFile(TRUE, <<>>, <<<<"a">>>>)}
          /\ \E stmts \in SeqsUpTo(MethodItems, MaxStatements) :
                unittest_file =
                    UnittestFile(TRUE, <<ast_ClassDef(<<"T", "e", "s", "t", "A">>, TestCaseBase,
                                                      <<ast_FunctionDef(<<"t", "e", "s", "t", "_", "a">>, stmts)>>)>>)
       \/ /\ function_file \in {FunctionFile(FALSE, <<>>, <<>>),
                                FunctionFile(TRUE, <<<<"b">>>>, <<>>)}
          /\ unittest_file \in
                 {UnittestFile(parses, <<ast_ClassDef(<<"T", "e", "s", "t", "A">>, TestCaseBase, ExampleBody)>>) :
                     parses \in BOOLEAN}
    /\ MainStart

SpecProbes == InitProbes /\ [][NextMain]_vars

\* ----------------------------------------- properties of the statements
\* The statements of the first test method of the file, its docstring left
\* out.
MethodStatements ==
    IF DeclaredTests[1].body # <<>> /\ DeclaredTests[1].body[1] = StringConstant
    THEN Tail(DeclaredTests[1].body) ELSE DeclaredTests[1].body

\* The call of self.<method> with at least, or with fewer than, n arguments.
CallOf(e, methods) ==
    e.node = "Call" /\ e.func.node = "Attribute" /\ e.func.attr \in methods

\* The assertion call of a statement: the expression of an expression
\* statement, the first context expression of a with-block.
AssertionOf(stmt) ==
    IF stmt.node = "Expr" THEN stmt.value
    ELSE IF stmt.node = "With" THEN stmt.items[1]
    ELSE ast_Name(<<>>)

\* The number of arguments the assertion of the call requires, 0 if the
\* call is none of the assertions that are rewritten.
Required(stmt, e) ==
    IF stmt.node = "Expr" /\ CallOf(e, {assertEqual, assertIn}) THEN 2
    ELSE IF stmt.node = "Expr" /\ CallOf(e, {assertTrue, assertFalse}) THEN 1
    ELSE IF stmt.node = "With" /\ CallOf(e, {assertRaises}) THEN 1
    ELSE 0

\* The statement is rewritten as a probe; is an assertion with fewer
\* arguments than required; is no assertion.
IsProbe(stmt) ==
    /\ Required(stmt, AssertionOf(stmt)) > 0
    /\ Len(AssertionOf(stmt).args) >= Required(stmt, AssertionOf(stmt))
IsShort(stmt) ==
    /\ Required(stmt, AssertionOf(stmt)) > 0
    /\ Len(AssertionOf(stmt).args) < Required(stmt, AssertionOf(stmt))
IsPassedThrough(stmt) == Required(stmt, AssertionOf(stmt)) = 0

RECURSIVE unqualified_stmt(_)
\* A statement with the self qualifier stripped from its expressions.
unqualified_stmt(s) ==
    IF s.node = "Expr" THEN ast_Expr(unqualified(s.value))
    ELSE IF s.node = "Assign" THEN ast_Assign(unqualified(s.target), unqualified(s.value))
    ELSE IF s.node = "For"
         THEN ast_For(unqualified(s.target), unqualified(s.iter),
                      [i \in 1..Len(s.body) |-> unqualified_stmt(s.body[i])])
    ELSE ast_With([i \in 1..Len(s.items) |-> unqualified(s.items[i])],
                  [i \in 1..Len(s.body) |-> unqualified_stmt(s.body[i])])

\* The test case of the question has the lines of code and the lines of
\* expected output.
Emits(q, code_lines, expected_lines) ==
    /\ Len(questions[q].testcases) = 1
    /\ questions[q].testcases[1].testcode = join(<<"\n">>, code_lines)
    /\ questions[q].testcases[1].expected = join(<<"\n">>, expected_lines)

\* C26: every top-level statement that is not a recognised assertion is
\* emitted once, unchanged except for the stripping of the qualifier, and
\* contributes no expected value, assertions inside a loop included.
C26_OtherStatementsPassThrough ==
    \A q \in 1..Len(questions) :
        (\A i \in DOMAIN MethodStatements : IsPassedThrough(MethodStatements[i])) =>
            Emits(q,
                  [i \in DOMAIN MethodStatements |->
                      unparse_stmt(unqualified_stmt(MethodStatements[i]), 0)],
                  <<>>)

\* The statements of the method that reach the transformer: a constant that
\* opens the body is left out with the docstring.
Reaching ==
    IF DeclaredTests[1].body # <<>>
          /\ DeclaredTests[1].body[1] \in {StringConstant, NumberConstant}
    THEN Tail(DeclaredTests[1].body) ELSE DeclaredTests[1].body

\* What the transformer makes of them.
Transformed ==
    [i \in DOMAIN Reaching |->
        [stmt |-> Reaching[i], out |-> _transform_statement(Reaching[i])]]

\* The expected values of those of the transformed statements that satisfy
\* the test.
ExpectedWhere(transformed, Test(_)) ==
    [i \in 1..Len(SelectSeq(transformed, Test)) |->
        SelectSeq(transformed, Test)[i].out.expected]

\* The code of an assertion with too few arguments: the raw call.
RawCall(t) == IF IsShort(t.stmt) THEN unparse_expr(AssertionOf(t.stmt)) ELSE t.out.code

C30_ProbeOrderPreserved ==
    \A q \in 1..Len(questions) :
        Emits(q,
              [i \in DOMAIN Transformed |-> Transformed[i].out.code],
              ExpectedWhere(Transformed, LAMBDA t : IsProbe(t.stmt)))

\* A method of two probes, transformed.
C30_Witness ==
    /\ Len(questions) = 1
    /\ DeclaredTests[1].body = <<ProbeRaises, ProbeEqual>>
    /\ questions[1].testcases[1].expected = <<"O", "K", "\n", "1", "0">>


\* ------------------------------------------- properties of the preamble
\* The statements of setUp as lines of code: every statement but the
\* docstring, its self qualifier stripped, in the order of declaration.
SetUpLines ==
    LET stmts == IF SetUpStatements # <<>> /\ SetUpStatements[1] = StringConstant
                 THEN Tail(SetUpStatements) ELSE SetUpStatements
    IN  [i \in DOMAIN stmts |-> unparse_stmt(unqualified_stmt(stmts[i]), 0)]

\* C28: when the test class declares setUp, the code of every test case of
\* the class is the statements of setUp, qualifier-stripped and in their
\* order, followed by the statements of the test method, and the expected
\* text is that of the test method alone.
C28_SetUpPrepended ==
    \A q \in 1..Len(questions) :
        \A i \in 1..Len(questions[q].testcases) :
            SetUpStatements # <<>> =>
                /\ questions[q].testcases[i].testcode =
                       join(<<"\n">>, SetUpLines \o <<CodeOf(DeclaredTests[i])>>)
                /\ questions[q].testcases[i].expected = ExpectedOf(DeclaredTests[i])
====
